---- MODULE Spec2Model ----
(***************************************************************************)
(* A model of netpeddler's Connection (connection.go) and Packet           *)
(* (packet.go): the sliding ACK bitmask, the list of in-flight reliable    *)
(* packets with their retry timers, and Send / SendReliable / Read / Tick. *)
(*                                                                         *)
(* Representation.                                                         *)
(*  - A uint32 bitmask is the set of the indices of its 1 bits, a subset   *)
(*    of 0..31.  Shifting left by n adds n to every index and drops the    *)
(*    indices that leave 0..31 (the truncation of a uint32 shift).         *)
(*  - time.Time values are kept relative to the clock: the field nextCheck *)
(*    of a record holds nextCheck - time.Now().  It is <= 0 exactly when   *)
(*    time.Now().Before(nextCheck) is false.  ClockAdvance lowers it.      *)
(*  - Sequence numbers stay far below 2^32 in every specification, so the  *)
(*    uint32 arithmetic on them never wraps here.                          *)
(***************************************************************************)
EXTENDS Integers, Sequences, FiniteSets, TLC

\* ------------------------------------------------------------------------
\* Bounds of the model
\* ------------------------------------------------------------------------

\* SpecAck: sequence numbers given to CalcAckMask and IsAckBy are 0..MaxSeq
MaxSeq == 33

\* SpecAck: number of calls made on one initial state
MaxCalls == 1

\* Spec: number of reliable packets handed to SendReliable
MaxRecords == 2

\* Spec: number of plain Send calls
MaxSends == 1

\* Spec: RetryCount of a reliable packet is 0..MaxRetry
MaxRetry == 1

\* Spec: RetryInterval of a reliable packet is 1..MaxInterval clock units
MaxInterval == 1

\* Spec: the clock stops advancing while a record is MaxLate units overdue
MaxLate == 1

\* Spec: inbound packets carry a Seq in 1..MaxInSeq
MaxInSeq == 1

\* Spec: inbound packets carry an AckSeq in 1..MaxInAck
MaxInAck == 2

\* SpecRead: inbound packets carry a Seq in 0..MaxReadSeq
MaxReadSeq == 33

\* SpecRead: number of distinct sequence numbers read
MaxReads == 3

\* SpecRetry: RetryCount of the reliable packet
RetryDepth == 2

\* SpecRetry, SpecFull: number of reliable packets handed to SendReliable
FewRecords == 1

\* longest payload of a packet handed to the codec
MaxPayload == 2

\* room of the read buffer beyond the longest datagram
MaxSlack == 2

\* reliable packets a client sends in one burst
MaxBurst == 33

\* replies of the peer in one burst
MaxReplies == 2

\* how far ahead of the oldest datagram on the wire the peer may read
Reorder == 1

\* ------------------------------------------------------------------------
\* Program constants
\* ------------------------------------------------------------------------

maskDepth == 32

ackMaskDepth == 32

\* the width of the uint32 masks lastAckMask and Packet.AckMask
MaskWidth == 32

\* the modulus of the uint8 counters failCount and RetryCount
Uint8Mod == 256

\* ------------------------------------------------------------------------
\* State
\* ------------------------------------------------------------------------

VARIABLES
    lastSeenSeq,      \* Connection.lastSeenSeq
    lastAckMask,      \* Connection.lastAckMask, as a set of bit indices
    nextSeq,          \* Connection.nextSeq
    acksNeeded,       \* Connection.acksNeeded, the list of in-flight records
    RemoteAddress,    \* Connection.RemoteAddress is set (not nil)
    UpdateAcksOnRead, \* Connection.UpdateAcksOnRead
    last,             \* the last operation: its results, datagrams and callbacks
    created,          \* history: number of ReliablePackets handed to SendReliable
    sends,            \* history: number of plain Send calls
    tx,               \* history: tx[id], datagrams of record id put on the wire
    txErr,            \* history: txErr[id], sends of record id that failed
    onAck,            \* history: onAck[id], times OnAck fired for record id
    onFail,           \* history: onFail[id], times OnFailToAck fired for record id
    retryCountOf,     \* history: retryCountOf[id], RetryCount of record id, -1 = not enqueued
    readSeqs,         \* history: the Seq of every packet Read has returned
    lastNewSeq,       \* history: Seq of the last datagram sent with generateNewSeq, 0 = none
    newSeqErrs,       \* history: number of failed sends made with generateNewSeq
    isOpen,           \* Connection.isOpen
    socketOpen,       \* Connection.Socket has not been closed
    seen,             \* history: what each callback fired by the last Read saw
    lastTxSeq,        \* history: lastTxSeq[id], Seq of the last datagram of record id, 0 = none
    oldTxSeqs,        \* history: oldTxSeqs[id], the Seqs of its earlier datagrams
    lastTrySeq,       \* history: lastTrySeq[id], Seq given to its last send, failed or not
    call,             \* SpecAck: the last direct call of a pure operation
    script,           \* SpecAck: steps of the ack test made from New(), -1 = off script
    calls,            \* SpecAck: number of direct calls made
    peer,             \* the Connection of the peer: its ACK state and counter
    wire              \* Seqs of the datagrams on their way to the peer

ackVars == <<lastSeenSeq, lastAckMask>>

connVars == <<nextSeq, acksNeeded, RemoteAddress, UpdateAcksOnRead, last>>

sockVars == <<isOpen, socketOpen>>

seqVars == <<lastTxSeq, oldTxSeqs, lastTrySeq>>

histVars == <<created, sends, tx, txErr, onAck, onFail, retryCountOf,
              readSeqs, lastNewSeq, newSeqErrs>>

pureVars == <<call, script, calls>>

peerVars == <<peer, wire>>

vars == <<ackVars, connVars, sockVars, histVars, seen, seqVars, pureVars,
          peerVars>>

\* the identities of the ReliablePackets
Ids == 1..MaxRecords

\* ------------------------------------------------------------------------
\* uint32 bit masks
\* ------------------------------------------------------------------------

\* the bits of a small literal such as 0x19
Bits(n) == {k \in 0..30 : (n \div (2^k)) % 2 = 1}

\* mask << n on a uint32
ShiftLeft(mask, n) == {k + n : k \in mask} \cap (0..(MaskWidth - 1))

\* ------------------------------------------------------------------------
\* The ACK engine
\* ------------------------------------------------------------------------

\* CalcAckMask that keeps the old bits on a jump of 32 or more
CalcAckMask_KeepOnJump(lss, curMask, currentSeq) ==
    IF lss < currentSeq
    THEN [lastSeenSeq |-> currentSeq,
          lastAckMask |-> (IF currentSeq - lss < maskDepth
                           THEN ShiftLeft(curMask, currentSeq - lss)
                           ELSE curMask) \cup {0},
          mask |-> {}, seq |-> 0]
    ELSE [lastSeenSeq |-> lss,
          lastAckMask |-> IF lss - currentSeq < maskDepth
                          THEN curMask \cup ShiftLeft({0}, lss - currentSeq)
                          ELSE curMask,
          mask |-> {}, seq |-> 0]

\* CalcAckMask that clears the mask when a sequence too old for it arrives
CalcAckMask_ZeroOnTooOld(lss, curMask, currentSeq) ==
    IF lss < currentSeq
    THEN [lastSeenSeq |-> currentSeq,
          lastAckMask |-> (IF currentSeq - lss < maskDepth
                           THEN ShiftLeft(curMask, currentSeq - lss)
                           ELSE {}) \cup {0},
          mask |-> {}, seq |-> 0]
    ELSE [lastSeenSeq |-> lss,
          lastAckMask |-> IF lss - currentSeq < maskDepth
                          THEN curMask \cup ShiftLeft({0}, lss - currentSeq)
                          ELSE {},
          mask |-> {}, seq |-> 0]

\* CalcAckMask that forgets a sequence older than the last seen one
CalcAckMask_DropOld(lss, curMask, currentSeq) ==
    IF lss < currentSeq
    THEN [lastSeenSeq |-> currentSeq,
          lastAckMask |-> (IF currentSeq - lss < maskDepth
                           THEN ShiftLeft(curMask, currentSeq - lss)
                           ELSE {}) \cup {0},
          mask |-> {}, seq |-> 0]
    ELSE [lastSeenSeq |-> lss,
          lastAckMask |-> IF lss = currentSeq THEN curMask \cup {0} ELSE curMask,
          mask |-> {}, seq |-> 0]

\* CalcAckMask that takes every sequence it is given as the last seen one
CalcAckMask_FollowLatest(lss, curMask, currentSeq) ==
    IF lss < currentSeq
    THEN [lastSeenSeq |-> currentSeq,
          lastAckMask |-> (IF currentSeq - lss < maskDepth
                           THEN ShiftLeft(curMask, currentSeq - lss)
                           ELSE {}) \cup {0},
          mask |-> {}, seq |-> 0]
    ELSE [lastSeenSeq |-> currentSeq,
          lastAckMask |-> IF lss - currentSeq < maskDepth
                          THEN curMask \cup ShiftLeft({0}, lss - currentSeq)
                          ELSE curMask,
          mask |-> {}, seq |-> 0]

\* CalcAckMask that takes the branch of a new sequence also when the
\* sequence equals the last seen one
CalcAckMask_ResetOnRepeat(lss, curMask, currentSeq) ==
    IF lss <= currentSeq
    THEN LET seqDiff == currentSeq - lss
             shifted == IF seqDiff < maskDepth /\ seqDiff > 0
                        THEN ShiftLeft(curMask, seqDiff)
                        ELSE {}
         IN  [lastSeenSeq |-> currentSeq,
              lastAckMask |-> shifted \cup {0},
              mask |-> {}, seq |-> 0]
    ELSE LET seqDiff == lss - currentSeq
         IN  [lastSeenSeq |-> lss,
              lastAckMask |-> IF seqDiff < maskDepth
                              THEN curMask \cup ShiftLeft({0}, seqDiff)
                              ELSE curMask,
              mask |-> {}, seq |-> 0]

\* Connection.CalcAckMask: the connection fields after the call, and the
\* values the call returns (the named results mask and seq)
CalcAckMask(lss, curMask, currentSeq) ==
    IF lss < currentSeq
    THEN LET seqDiff == currentSeq - lss
             shifted == IF seqDiff < maskDepth /\ seqDiff > 0
                        THEN ShiftLeft(curMask, seqDiff)
                        ELSE {}
         IN  [lastSeenSeq |-> currentSeq,
              lastAckMask |-> shifted \cup {0},
              mask |-> {}, seq |-> 0]
    ELSE LET seqDiff == lss - currentSeq
         IN  [lastSeenSeq |-> lss,
              lastAckMask |-> IF seqDiff < maskDepth
                              THEN curMask \cup ShiftLeft({0}, seqDiff)
                              ELSE curMask,
              mask |-> {}, seq |-> 0]

\* calcNewAckMask(lastSeen, currentSeq, currentMask) of the Listener: the
\* named results mask and seq start at zero; the branch of a sequence too old
\* for the mask assigns seq only
calcNewAckMask(lastSeen, currentSeq, currentMask) ==
    IF lastSeen < currentSeq
    THEN LET seqDiff == currentSeq - lastSeen
             shifted == IF seqDiff < maskDepth /\ seqDiff > 0
                        THEN ShiftLeft(currentMask, seqDiff)
                        ELSE {}
         IN  [mask |-> shifted \cup {0}, seq |-> currentSeq]
    ELSE LET seqDiff == lastSeen - currentSeq
         IN  [mask |-> IF seqDiff < maskDepth
                       THEN currentMask \cup ShiftLeft({0}, seqDiff)
                       ELSE {},
              seq |-> lastSeen]

\* IsAckBy that accepts any set bit of the mask
IsAckBy_AnyBit(pSeq, ackPacket) ==
    IF ackPacket.AckSeq < pSeq
    THEN FALSE
    ELSE IF ackPacket.AckSeq - pSeq >= ackMaskDepth
         THEN FALSE
         ELSE ackPacket.AckMask # {}

\* IsAckBy whose mask reaches one bit less far back
IsAckBy_OneShort(pSeq, ackPacket) ==
    IF ackPacket.AckSeq < pSeq
    THEN FALSE
    ELSE LET seqDiff == ackPacket.AckSeq - pSeq
         IN  IF seqDiff >= ackMaskDepth - 1
             THEN FALSE
             ELSE (ackPacket.AckMask \cap ShiftLeft({0}, seqDiff)) # {}

\* IsAckBy that takes AckSeq for a cumulative acknowledgement
IsAckBy_Cumulative(pSeq, ackPacket) ==
    IF ackPacket.AckSeq < pSeq
    THEN FALSE
    ELSE ackPacket.AckMask # {}

\* Packet.IsAckBy: does ackPacket acknowledge the packet with sequence pSeq
IsAckBy(pSeq, ackPacket) ==
    IF ackPacket.AckSeq < pSeq
    THEN FALSE
    ELSE LET seqDiff == ackPacket.AckSeq - pSeq
         IN  IF seqDiff >= ackMaskDepth
             THEN FALSE
             ELSE (ackPacket.AckMask \cap ShiftLeft({0}, seqDiff)) # {}

\* ------------------------------------------------------------------------
\* Sending
\* ------------------------------------------------------------------------

\* the result of an operation, kept in the variable last:
\*   err    - the error returned ("nil" = none)
\*   read   - the bool Tick returns
\*   p      - the packet Read decoded (NoPacket = none)
\*   out    - the datagrams put on the wire, in order; rid is the record a
\*            datagram belongs to (0 = a plain Send), gen its generateNewSeq,
\*            to the address it went to (the remote passed to Send, or the
\*            connection's RemoteAddress)
\*   events - the callbacks fired, in order
\*   errId  - the record whose send failed (0 = none, or a plain Send)
NoPacket == [Seq |-> -1, AckSeq |-> -1, AckMask |-> {}]

Result(op, err, read, p, out, events, errId) ==
    [op |-> op, err |-> err, read |-> read, p |-> p, out |-> out,
     events |-> events, errId |-> errId]

\* the peer's Connection as New() leaves it; readSeqs is the history of the
\* sequence numbers the peer has read
NewPeer ==
    [lastSeenSeq |-> 0, lastAckMask |-> {}, nextSeq |-> 1, readSeqs |-> {}]

\* no pure operation has been called directly
NoCall == [op |-> "none"]

\* GetNextSeq that does not advance the counter
GetNextSeq_NoIncrement(seq) == [seq |-> seq, nextSeq |-> seq]

\* Connection.GetNextSeq
GetNextSeq(seq) == [seq |-> seq, nextSeq |-> seq + 1]

\* Send that looks for the address before it touches the packet
Send_AddressFirst(seq0, p, generateNewSeq, remote, writeOk, rid) ==
    IF ~remote /\ ~RemoteAddress
    THEN [p |-> p, nextSeq |-> seq0, err |-> "NoRemote", out |-> <<>>]
    ELSE LET g    == GetNextSeq(seq0)
             p1   == IF generateNewSeq THEN [p EXCEPT !.Seq = g.seq] ELSE p
             seq1 == IF generateNewSeq THEN g.nextSeq ELSE seq0
             p2   == [p1 EXCEPT !.AckSeq = lastSeenSeq, !.AckMask = lastAckMask]
             err  == IF ~writeOk THEN "SendFailed" ELSE "nil"
         IN  [p |-> p2, nextSeq |-> seq1, err |-> err,
              out |-> IF err = "nil"
                      THEN <<[Seq |-> p2.Seq, AckSeq |-> p2.AckSeq,
                              AckMask |-> p2.AckMask, rid |-> rid,
                              gen |-> generateNewSeq,
                              to |-> IF remote THEN "remote" ELSE "RemoteAddress"]>>
                      ELSE <<>>]

\* Send that leaves the AckSeq and AckMask of the packet as the caller set them
Send_KeepAcks(seq0, p, generateNewSeq, remote, writeOk, rid) ==
    LET g    == GetNextSeq(seq0)
        p1   == IF generateNewSeq THEN [p EXCEPT !.Seq = g.seq] ELSE p
        seq1 == IF generateNewSeq THEN g.nextSeq ELSE seq0
        err  == IF ~remote /\ ~RemoteAddress THEN "NoRemote"
                ELSE IF ~writeOk THEN "SendFailed"
                ELSE "nil"
    IN  [p |-> p1, nextSeq |-> seq1, err |-> err,
         out |-> IF err = "nil"
                 THEN <<[Seq |-> p1.Seq, AckSeq |-> p1.AckSeq,
                         AckMask |-> p1.AckMask, rid |-> rid,
                         gen |-> generateNewSeq,
                         to |-> IF remote THEN "remote" ELSE "RemoteAddress"]>>
                 ELSE <<>>]

\* Send that prefers the connection's RemoteAddress to the remote passed in
Send_DefaultFirst(seq0, p, generateNewSeq, remote, writeOk, rid) ==
    LET g    == GetNextSeq(seq0)
        p1   == IF generateNewSeq THEN [p EXCEPT !.Seq = g.seq] ELSE p
        seq1 == IF generateNewSeq THEN g.nextSeq ELSE seq0
        p2   == [p1 EXCEPT !.AckSeq = lastSeenSeq, !.AckMask = lastAckMask]
        err  == IF ~remote /\ ~RemoteAddress THEN "NoRemote"
                ELSE IF ~writeOk THEN "SendFailed"
                ELSE "nil"
    IN  [p |-> p2, nextSeq |-> seq1, err |-> err,
         out |-> IF err = "nil"
                 THEN <<[Seq |-> p2.Seq, AckSeq |-> p2.AckSeq,
                         AckMask |-> p2.AckMask, rid |-> rid,
                         gen |-> generateNewSeq,
                         to |-> IF RemoteAddress THEN "RemoteAddress" ELSE "remote"]>>
                 ELSE <<>>]

\* Connection.Send on a connection whose counter is seq0: p is the caller's
\* packet, remote says whether a remote address was passed, writeOk whether
\* Socket.WriteToUDP succeeds.  Gives the packet as Send leaves it, the
\* counter, the error and the datagrams written.
Send(seq0, p, generateNewSeq, remote, writeOk, rid) ==
    LET g    == GetNextSeq(seq0)
        p1   == IF generateNewSeq THEN [p EXCEPT !.Seq = g.seq] ELSE p
        seq1 == IF generateNewSeq THEN g.nextSeq ELSE seq0
        p2   == [p1 EXCEPT !.AckSeq = lastSeenSeq, !.AckMask = lastAckMask]
        err  == IF ~remote /\ ~RemoteAddress THEN "NoRemote"
                ELSE IF ~writeOk THEN "SendFailed"
                ELSE "nil"
    IN  [p |-> p2, nextSeq |-> seq1, err |-> err,
         out |-> IF err = "nil"
                 THEN <<[Seq |-> p2.Seq, AckSeq |-> p2.AckSeq,
                         AckMask |-> p2.AckMask, rid |-> rid,
                         gen |-> generateNewSeq,
                         to |-> IF remote THEN "remote" ELSE "RemoteAddress"]>>
                 ELSE <<>>]

\* MakeReliable: the record made of packet p (its nextCheck is set again by
\* SendReliable)
MakeReliable(id, p, retryInterval, retryCount) ==
    [id |-> id, Packet |-> p, RetryInterval |-> retryInterval,
     RetryCount |-> retryCount, nextCheck |-> retryInterval, failCount |-> 0]

\* SendReliable that watches the record also when the send failed
SendReliable_PushOnError(list, seq0, rp, generateNewSeq, remote, writeOk) ==
    LET rp0 == [rp EXCEPT !.Packet.RemoteAddress = remote]
        s   == Send(seq0, rp0.Packet, generateNewSeq, remote, writeOk, rp.id)
        rp1 == [rp0 EXCEPT !.Packet = s.p, !.nextCheck = rp.RetryInterval]
    IN  [list |-> Append(list, rp1), nextSeq |-> s.nextSeq, err |-> s.err,
         out |-> s.out]

\* Connection.SendReliable on a connection whose list is list and whose
\* counter is seq0: the list and the counter after the call, the error
\* returned and the datagrams written
SendReliable(list, seq0, rp, generateNewSeq, remote, writeOk) ==
    LET rp0 == [rp EXCEPT !.Packet.RemoteAddress = remote]
        s   == Send(seq0, rp0.Packet, generateNewSeq, remote, writeOk, rp.id)
        rp1 == [rp0 EXCEPT !.Packet = s.p, !.nextCheck = rp.RetryInterval]
    IN  IF s.err # "nil"
        THEN [list |-> list, nextSeq |-> s.nextSeq, err |-> s.err, out |-> s.out]
        ELSE [list |-> Append(list, rp1), nextSeq |-> s.nextSeq, err |-> "nil",
              out |-> s.out]

\* ------------------------------------------------------------------------
\* The reliability tracker
\* ------------------------------------------------------------------------

\* ProccessAcks whose loop ends at the first record it removes
ProccessAcks_StopAfterRemove(list, p) ==
    LET hits == {i \in DOMAIN list : IsAckBy(list[i].Packet.Seq, p)}
    IN  IF hits = {}
        THEN [list |-> list, events |-> <<>>]
        ELSE LET first == CHOOSE i \in hits : \A j \in hits : i <= j
             IN  [list   |-> SubSeq(list, 1, first - 1)
                               \o SubSeq(list, first + 1, Len(list)),
                  events |-> <<[ev |-> "OnAck", id |-> list[first].id]>>]

\* ProccessAcks that fires OnAck and leaves the record in the list
ProccessAcks_KeepRecords(list, p) ==
    LET acked(rp) == IsAckBy(rp.Packet.Seq, p)
        gone      == SelectSeq(list, acked)
    IN  [list   |-> list,
         events |-> [i \in 1..Len(gone) |-> [ev |-> "OnAck", id |-> gone[i].id]]]

\* Connection.ProccessAcks: the records that stay in flight, and the OnAck
\* callbacks fired, in list order
ProccessAcks(list, p) ==
    LET acked(rp) == IsAckBy(rp.Packet.Seq, p)
        gone      == SelectSeq(list, acked)
    IN  [list   |-> SelectSeq(list, LAMBDA rp : ~acked(rp)),
         events |-> [i \in 1..Len(gone) |-> [ev |-> "OnAck", id |-> gone[i].id]]]

\* retryIfNeeded that resends only while failCount < RetryCount
retryIfNeeded_OneLess(rp, seq0, writeOk) ==
    IF 0 < rp.nextCheck
    THEN [rp |-> rp, resent |-> FALSE, maxErrors |-> FALSE, err |-> "nil",
          nextSeq |-> seq0, out |-> <<>>, events |-> <<>>]
    ELSE LET rp1 == [rp EXCEPT !.nextCheck = @ + rp.RetryInterval,
                               !.failCount = (@ + 1) % Uint8Mod]
         IN  IF rp1.failCount < rp1.RetryCount
             THEN LET s == Send(seq0, rp1.Packet, TRUE,
                                rp1.Packet.RemoteAddress, writeOk, rp1.id)
                  IN  [rp |-> [rp1 EXCEPT !.Packet = s.p], resent |-> TRUE,
                       maxErrors |-> FALSE, err |-> s.err,
                       nextSeq |-> s.nextSeq, out |-> s.out, events |-> <<>>]
             ELSE [rp |-> rp1, resent |-> FALSE, maxErrors |-> TRUE,
                   err |-> "nil", nextSeq |-> seq0, out |-> <<>>,
                   events |-> <<[ev |-> "OnFailToAck", id |-> rp1.id]>>]

\* retryIfNeeded that resends the packet under the sequence number it has
retryIfNeeded_SameSeq(rp, seq0, writeOk) ==
    IF 0 < rp.nextCheck
    THEN [rp |-> rp, resent |-> FALSE, maxErrors |-> FALSE, err |-> "nil",
          nextSeq |-> seq0, out |-> <<>>, events |-> <<>>]
    ELSE LET rp1 == [rp EXCEPT !.nextCheck = @ + rp.RetryInterval,
                               !.failCount = (@ + 1) % Uint8Mod]
         IN  IF rp1.failCount <= rp1.RetryCount
             THEN LET s == Send(seq0, rp1.Packet, FALSE,
                                rp1.Packet.RemoteAddress, writeOk, rp1.id)
                  IN  [rp |-> [rp1 EXCEPT !.Packet = s.p], resent |-> TRUE,
                       maxErrors |-> FALSE, err |-> s.err,
                       nextSeq |-> s.nextSeq, out |-> s.out, events |-> <<>>]
             ELSE [rp |-> rp1, resent |-> FALSE, maxErrors |-> TRUE,
                   err |-> "nil", nextSeq |-> seq0, out |-> <<>>,
                   events |-> <<[ev |-> "OnFailToAck", id |-> rp1.id]>>]

\* retryIfNeeded that moves nextCheck forward until it lies in the future
retryIfNeeded_ChaseForward(rp, seq0, writeOk) ==
    IF 0 < rp.nextCheck
    THEN [rp |-> rp, resent |-> FALSE, maxErrors |-> FALSE, err |-> "nil",
          nextSeq |-> seq0, out |-> <<>>, events |-> <<>>]
    ELSE LET rp1 == [rp EXCEPT !.nextCheck = @ + rp.RetryInterval
                                   * (((0 - @) \div rp.RetryInterval) + 1),
                               !.failCount = (@ + 1) % Uint8Mod]
         IN  IF rp1.failCount <= rp1.RetryCount
             THEN LET s == Send(seq0, rp1.Packet, TRUE,
                                rp1.Packet.RemoteAddress, writeOk, rp1.id)
                  IN  [rp |-> [rp1 EXCEPT !.Packet = s.p], resent |-> TRUE,
                       maxErrors |-> FALSE, err |-> s.err,
                       nextSeq |-> s.nextSeq, out |-> s.out, events |-> <<>>]
             ELSE [rp |-> rp1, resent |-> FALSE, maxErrors |-> TRUE,
                   err |-> "nil", nextSeq |-> seq0, out |-> <<>>,
                   events |-> <<[ev |-> "OnFailToAck", id |-> rp1.id]>>]

\* retryIfNeeded that sets nextCheck one RetryInterval after the resend
retryIfNeeded_FromNow(rp, seq0, writeOk) ==
    IF 0 < rp.nextCheck
    THEN [rp |-> rp, resent |-> FALSE, maxErrors |-> FALSE, err |-> "nil",
          nextSeq |-> seq0, out |-> <<>>, events |-> <<>>]
    ELSE LET rp1 == [rp EXCEPT !.nextCheck = rp.RetryInterval,
                               !.failCount = (@ + 1) % Uint8Mod]
         IN  IF rp1.failCount <= rp1.RetryCount
             THEN LET s == Send(seq0, rp1.Packet, TRUE,
                                rp1.Packet.RemoteAddress, writeOk, rp1.id)
                  IN  [rp |-> [rp1 EXCEPT !.Packet = s.p], resent |-> TRUE,
                       maxErrors |-> FALSE, err |-> s.err,
                       nextSeq |-> s.nextSeq, out |-> s.out, events |-> <<>>]
             ELSE [rp |-> rp1, resent |-> FALSE, maxErrors |-> TRUE,
                   err |-> "nil", nextSeq |-> seq0, out |-> <<>>,
                   events |-> <<[ev |-> "OnFailToAck", id |-> rp1.id]>>]

\* retryIfNeeded with a failCount that is wider than eight bits
retryIfNeeded_WideCount(rp, seq0, writeOk) ==
    IF 0 < rp.nextCheck
    THEN [rp |-> rp, resent |-> FALSE, maxErrors |-> FALSE, err |-> "nil",
          nextSeq |-> seq0, out |-> <<>>, events |-> <<>>]
    ELSE LET rp1 == [rp EXCEPT !.nextCheck = @ + rp.RetryInterval,
                               !.failCount = @ + 1]
         IN  IF rp1.failCount <= rp1.RetryCount
             THEN LET s == Send(seq0, rp1.Packet, TRUE,
                                rp1.Packet.RemoteAddress, writeOk, rp1.id)
                  IN  [rp |-> [rp1 EXCEPT !.Packet = s.p], resent |-> TRUE,
                       maxErrors |-> FALSE, err |-> s.err,
                       nextSeq |-> s.nextSeq, out |-> s.out, events |-> <<>>]
             ELSE [rp |-> rp1, resent |-> FALSE, maxErrors |-> TRUE,
                   err |-> "nil", nextSeq |-> seq0, out |-> <<>>,
                   events |-> <<[ev |-> "OnFailToAck", id |-> rp1.id]>>]

\* Connection.retryIfNeeded for the record rp on a connection whose counter
\* is seq0
retryIfNeeded(rp, seq0, writeOk) ==
    IF 0 < rp.nextCheck
    THEN [rp |-> rp, resent |-> FALSE, maxErrors |-> FALSE, err |-> "nil",
          nextSeq |-> seq0, out |-> <<>>, events |-> <<>>]
    ELSE LET rp1 == [rp EXCEPT !.nextCheck = @ + rp.RetryInterval,
                               !.failCount = (@ + 1) % Uint8Mod]
         IN  IF rp1.failCount <= rp1.RetryCount
             THEN LET s == Send(seq0, rp1.Packet, TRUE,
                                rp1.Packet.RemoteAddress, writeOk, rp1.id)
                  IN  [rp |-> [rp1 EXCEPT !.Packet = s.p], resent |-> TRUE,
                       maxErrors |-> FALSE, err |-> s.err,
                       nextSeq |-> s.nextSeq, out |-> s.out, events |-> <<>>]
             ELSE [rp |-> rp1, resent |-> FALSE, maxErrors |-> TRUE,
                   err |-> "nil", nextSeq |-> seq0, out |-> <<>>,
                   events |-> <<[ev |-> "OnFailToAck", id |-> rp1.id]>>]

\* the retry loop that keeps a record whose retries are used up in the list
RECURSIVE RetryLoop_KeepMaxed(_, _, _, _)
RetryLoop_KeepMaxed(done, rest, st, failAt) ==
    IF rest = <<>>
    THEN [list |-> done, nextSeq |-> st.nextSeq, out |-> st.out,
          events |-> st.events, err |-> "nil", errId |-> 0]
    ELSE LET rp == Head(rest)
             r  == retryIfNeeded(rp, st.nextSeq, st.sent + 1 # failAt)
             st1 == [nextSeq |-> r.nextSeq, out |-> st.out \o r.out,
                     events |-> st.events \o r.events,
                     sent |-> IF r.resent THEN st.sent + 1 ELSE st.sent]
         IN  IF r.err # "nil"
             THEN [list |-> done \o <<r.rp>> \o Tail(rest),
                   nextSeq |-> st1.nextSeq, out |-> st1.out,
                   events |-> st1.events, err |-> r.err, errId |-> rp.id]
             ELSE RetryLoop_KeepMaxed(done \o <<r.rp>>, Tail(rest), st1, failAt)

\* the retry loop that goes on to the next record after a failed send
RECURSIVE RetryLoop_GoOnAfterError(_, _, _, _)
RetryLoop_GoOnAfterError(done, rest, st, failAt) ==
    IF rest = <<>>
    THEN [list |-> done, nextSeq |-> st.nextSeq, out |-> st.out,
          events |-> st.events, err |-> "nil", errId |-> 0]
    ELSE LET rp == Head(rest)
             r  == retryIfNeeded(rp, st.nextSeq, st.sent + 1 # failAt)
             st1 == [nextSeq |-> r.nextSeq, out |-> st.out \o r.out,
                     events |-> st.events \o r.events,
                     sent |-> IF r.resent THEN st.sent + 1 ELSE st.sent]
         IN  IF r.err # "nil"
             THEN [RetryLoop_GoOnAfterError(done \o <<r.rp>>, Tail(rest), st1,
                                            failAt)
                     EXCEPT !.err = r.err, !.errId = rp.id]
             ELSE IF r.maxErrors
             THEN RetryLoop_GoOnAfterError(done, Tail(rest), st1, failAt)
             ELSE RetryLoop_GoOnAfterError(done \o <<r.rp>>, Tail(rest), st1, failAt)

\* Connection.RetryReliablePackets: the loop over the list.  done holds the
\* records already visited that stay, rest the records still to visit;
\* failAt is the number of the send of this call whose write fails (0 = none).
RECURSIVE RetryLoop(_, _, _, _)
RetryLoop(done, rest, st, failAt) ==
    IF rest = <<>>
    THEN [list |-> done, nextSeq |-> st.nextSeq, out |-> st.out,
          events |-> st.events, err |-> "nil", errId |-> 0]
    ELSE LET rp == Head(rest)
             r  == retryIfNeeded(rp, st.nextSeq, st.sent + 1 # failAt)
             st1 == [nextSeq |-> r.nextSeq, out |-> st.out \o r.out,
                     events |-> st.events \o r.events,
                     sent |-> IF r.resent THEN st.sent + 1 ELSE st.sent]
         IN  IF r.err # "nil"
             THEN [list |-> done \o <<r.rp>> \o Tail(rest),
                   nextSeq |-> st1.nextSeq, out |-> st1.out,
                   events |-> st1.events, err |-> r.err, errId |-> rp.id]
             ELSE IF r.maxErrors
             THEN RetryLoop(done, Tail(rest), st1, failAt)
             ELSE RetryLoop(done \o <<r.rp>>, Tail(rest), st1, failAt)

RetryReliablePackets(list, seq0, failAt) ==
    RetryLoop(<<>>, list, [nextSeq |-> seq0, out |-> <<>>, events |-> <<>>,
                           sent |-> 0], failAt)

\* ------------------------------------------------------------------------
\* History
\* ------------------------------------------------------------------------

Count(seq, Test(_)) == Cardinality({i \in DOMAIN seq : Test(seq[i])})

\* the history variables after an operation that wrote the datagrams out,
\* fired the callbacks events and had a send of record errId fail
Record(out, events, errId) ==
    /\ tx' = [id \in Ids |-> tx[id] + Count(out, LAMBDA d : d.rid = id)]
    /\ txErr' = [id \in Ids |-> txErr[id] + (IF errId = id THEN 1 ELSE 0)]
    /\ onAck' = [id \in Ids |->
                   onAck[id] + Count(events, LAMBDA e : e.ev = "OnAck" /\ e.id = id)]
    /\ onFail' = [id \in Ids |->
                   onFail[id] + Count(events, LAMBDA e : e.ev = "OnFailToAck" /\ e.id = id)]
    /\ lastNewSeq' = LET new == SelectSeq(out, LAMBDA d : d.gen)
                     IN  IF new = <<>> THEN lastNewSeq ELSE new[Len(new)].Seq

\* the sequence-number history after an operation that wrote the datagrams
\* out, had a send of record errId fail and left the counter at seq1: a failed
\* send is the last one of its operation, so it took the number seq1 - 1
RecordSeqs(out, errId, seq1) ==
    LET sent(id) == SelectSeq(out, LAMBDA d : d.rid = id)
    IN  /\ lastTxSeq' = [id \in Ids |->
                           IF sent(id) # <<>> THEN sent(id)[Len(sent(id))].Seq
                           ELSE lastTxSeq[id]]
        /\ oldTxSeqs' = [id \in Ids |->
                           IF sent(id) # <<>> /\ lastTxSeq[id] # 0
                           THEN oldTxSeqs[id] \cup {lastTxSeq[id]}
                           ELSE oldTxSeqs[id]]
        /\ lastTrySeq' = [id \in Ids |->
                            IF sent(id) # <<>> THEN sent(id)[Len(sent(id))].Seq
                            ELSE IF errId = id THEN seq1 - 1
                            ELSE lastTrySeq[id]]

\* ------------------------------------------------------------------------
\* Inputs
\* ------------------------------------------------------------------------

\* the packet a caller hands to Send and SendReliable, with the Seq, AckSeq
\* and AckMask it preset
CallerPackets ==
    {[Seq |-> 0, AckSeq |-> 7, AckMask |-> {3}]}

\* the packets a peer may send
InPackets ==
    [Seq : 1..MaxInSeq, AckSeq : 1..MaxInAck, AckMask : {{0}, {0, 1}}]

\* what a read of the socket may give: a packet, a read that fails (deadline
\* expiry "timeout" or another failure "ioerror"), or a datagram shorter than
\* the header
ReadInputs ==
    [kind : {"packet"}, p : InPackets]
      \cup [kind : {"timeout", "ioerror", "short"}, p : {NoPacket}]

\* ------------------------------------------------------------------------
\* Spec: the operations of one Connection
\* ------------------------------------------------------------------------

\* the state NewConnection returns
Init ==
    /\ lastSeenSeq = 0
    /\ lastAckMask = {}
    /\ nextSeq = 1
    /\ acksNeeded = <<>>
    /\ RemoteAddress \in BOOLEAN
    /\ UpdateAcksOnRead = TRUE
    /\ last = Result("New", "nil", FALSE, NoPacket, <<>>, <<>>, 0)
    /\ created = 0
    /\ sends = 0
    /\ tx = [id \in Ids |-> 0]
    /\ txErr = [id \in Ids |-> 0]
    /\ onAck = [id \in Ids |-> 0]
    /\ onFail = [id \in Ids |-> 0]
    /\ retryCountOf = [id \in Ids |-> -1]
    /\ readSeqs = {}
    /\ lastNewSeq = 0
    /\ newSeqErrs = 0
    /\ isOpen = TRUE
    /\ socketOpen = TRUE
    /\ seen = <<>>
    /\ lastTxSeq = [id \in Ids |-> 0]
    /\ oldTxSeqs = [id \in Ids |-> {}]
    /\ lastTrySeq = [id \in Ids |-> 0]
    /\ call = NoCall
    /\ script = -1
    /\ calls = 0
    /\ peer = NewPeer
    /\ wire = {}

\* c.Send that takes the sequence number it sent for one it has seen
DoSend_SeesOwnSeq(p, generateNewSeq, remote, writeOk) ==
    /\ sends < MaxSends
    /\ socketOpen \/ ~writeOk
    /\ LET s == Send(nextSeq, p, generateNewSeq, remote, writeOk, 0)
       IN  /\ nextSeq' = s.nextSeq
           /\ lastSeenSeq' = IF lastSeenSeq < s.p.Seq THEN s.p.Seq ELSE lastSeenSeq
           /\ last' = Result("Send", s.err, FALSE, NoPacket, s.out, <<>>, 0)
           /\ Record(s.out, <<>>, 0)
           /\ newSeqErrs' = IF generateNewSeq /\ s.err # "nil"
                            THEN newSeqErrs + 1 ELSE newSeqErrs
    /\ sends' = sends + 1
    /\ seen' = <<>>
    /\ UNCHANGED <<lastAckMask, acksNeeded, RemoteAddress, UpdateAcksOnRead,
                   sockVars, created, retryCountOf, readSeqs, seqVars, pureVars,
                   peerVars>>

\* c.Send(p, generateNewSeq, remote)
DoSend(p, generateNewSeq, remote, writeOk) ==
    /\ sends < MaxSends
    /\ socketOpen \/ ~writeOk
    /\ LET s == Send(nextSeq, p, generateNewSeq, remote, writeOk, 0)
       IN  /\ nextSeq' = s.nextSeq
           /\ last' = Result("Send", s.err, FALSE, NoPacket, s.out, <<>>, 0)
           /\ Record(s.out, <<>>, 0)
           /\ newSeqErrs' = IF generateNewSeq /\ s.err # "nil"
                            THEN newSeqErrs + 1 ELSE newSeqErrs
    /\ sends' = sends + 1
    /\ seen' = <<>>
    /\ UNCHANGED <<ackVars, acksNeeded, RemoteAddress, UpdateAcksOnRead,
                   sockVars, created, retryCountOf, readSeqs, seqVars, pureVars,
                   peerVars>>

\* c.SendReliable(rp, generateNewSeq, remote) for a new ReliablePacket rp
DoSendReliable(p, retryInterval, retryCount, generateNewSeq, remote, writeOk) ==
    /\ created < MaxRecords
    /\ socketOpen \/ ~writeOk
    /\ LET id  == created + 1
           rp  == MakeReliable(id, [Seq |-> p.Seq, AckSeq |-> p.AckSeq,
                                    AckMask |-> p.AckMask,
                                    RemoteAddress |-> FALSE],
                               retryInterval, retryCount)
           s   == SendReliable(acksNeeded, nextSeq, rp, generateNewSeq, remote,
                               writeOk)
       IN  /\ nextSeq' = s.nextSeq
           /\ acksNeeded' = s.list
           /\ last' = Result("SendReliable", s.err, FALSE, NoPacket, s.out, <<>>,
                             IF s.err # "nil" THEN id ELSE 0)
           /\ Record(s.out, <<>>, IF s.err # "nil" THEN id ELSE 0)
           /\ newSeqErrs' = IF generateNewSeq /\ s.err # "nil"
                            THEN newSeqErrs + 1 ELSE newSeqErrs
           /\ retryCountOf' = IF s.err # "nil" THEN retryCountOf
                              ELSE [retryCountOf EXCEPT ![id] = retryCount]
           /\ RecordSeqs(s.out, IF s.err # "nil" THEN id ELSE 0, s.nextSeq)
    /\ created' = created + 1
    /\ seen' = <<>>
    /\ UNCHANGED <<ackVars, RemoteAddress, UpdateAcksOnRead, sockVars, sends,
                   readSeqs, pureVars,
                   peerVars>>

\* Read that scans the in-flight records before it updates the ACK state
Read_ScanBeforeUpdate(in) ==
    IF in.kind # "packet"
    THEN [lastSeenSeq |-> lastSeenSeq, lastAckMask |-> lastAckMask,
          list |-> acksNeeded, p |-> NoPacket,
          err |-> IF in.kind = "short" THEN "MalformedHeader" ELSE "ReadFailed",
          events |-> <<>>, seen |-> <<>>]
    ELSE LET a  == IF UpdateAcksOnRead
                   THEN CalcAckMask(lastSeenSeq, lastAckMask, in.p.Seq)
                   ELSE [lastSeenSeq |-> lastSeenSeq, lastAckMask |-> lastAckMask]
             pa == ProccessAcks(acksNeeded, in.p)
             saw(n) == [lastSeenSeq |-> lastSeenSeq,
                        lastAckMask |-> lastAckMask, len |-> n]
         IN  [lastSeenSeq |-> a.lastSeenSeq, lastAckMask |-> a.lastAckMask,
              list |-> pa.list, p |-> in.p, err |-> "nil",
              events |-> <<[ev |-> "OnPacketRead", id |-> Len(acksNeeded)]>>
                            \o pa.events,
              seen |-> <<saw(Len(acksNeeded))>>
                          \o [i \in 1..Len(pa.events) |-> saw(Len(acksNeeded) - i)]]

\* Read that drops the in-flight records when it fails
Read_ClearOnError(in) ==
    IF in.kind # "packet"
    THEN [lastSeenSeq |-> lastSeenSeq, lastAckMask |-> lastAckMask,
          list |-> <<>>, p |-> NoPacket,
          err |-> IF in.kind = "short" THEN "MalformedHeader" ELSE "ReadFailed",
          events |-> <<>>, seen |-> <<>>]
    ELSE LET a  == IF UpdateAcksOnRead
                   THEN CalcAckMask(lastSeenSeq, lastAckMask, in.p.Seq)
                   ELSE [lastSeenSeq |-> lastSeenSeq, lastAckMask |-> lastAckMask]
             pa == ProccessAcks(acksNeeded, in.p)
             saw(n) == [lastSeenSeq |-> a.lastSeenSeq,
                        lastAckMask |-> a.lastAckMask, len |-> n]
         IN  [lastSeenSeq |-> a.lastSeenSeq, lastAckMask |-> a.lastAckMask,
              list |-> pa.list, p |-> in.p, err |-> "nil",
              events |-> <<[ev |-> "OnPacketRead", id |-> Len(acksNeeded)]>>
                            \o pa.events,
              seen |-> <<saw(Len(acksNeeded))>>
                          \o [i \in 1..Len(pa.events) |-> saw(Len(acksNeeded) - i)]]

\* Read that updates the ACK state whatever UpdateAcksOnRead says
Read_AlwaysUpdate(in) ==
    IF in.kind # "packet"
    THEN [lastSeenSeq |-> lastSeenSeq, lastAckMask |-> lastAckMask,
          list |-> acksNeeded, p |-> NoPacket,
          err |-> IF in.kind = "short" THEN "MalformedHeader" ELSE "ReadFailed",
          events |-> <<>>, seen |-> <<>>]
    ELSE LET a  == CalcAckMask(lastSeenSeq, lastAckMask, in.p.Seq)
             pa == ProccessAcks(acksNeeded, in.p)
             saw(n) == [lastSeenSeq |-> a.lastSeenSeq,
                        lastAckMask |-> a.lastAckMask, len |-> n]
         IN  [lastSeenSeq |-> a.lastSeenSeq, lastAckMask |-> a.lastAckMask,
              list |-> pa.list, p |-> in.p, err |-> "nil",
              events |-> <<[ev |-> "OnPacketRead", id |-> Len(acksNeeded)]>>
                            \o pa.events,
              seen |-> <<saw(Len(acksNeeded))>>
                          \o [i \in 1..Len(pa.events) |-> saw(Len(acksNeeded) - i)]]

\* Connection.Read once the socket has given in: the fields of the connection
\* after the call, what it returns, the callbacks it fired in order and, for
\* each callback, what the connection passed to it showed at that moment
\* (GetLastSeenSeq, GetAckMask, GetAcksNeededLen).  The id of the OnPacketRead
\* event is the length of the list when it fired.
Read(in) ==
    IF in.kind # "packet"
    THEN [lastSeenSeq |-> lastSeenSeq, lastAckMask |-> lastAckMask,
          list |-> acksNeeded, p |-> NoPacket,
          err |-> IF in.kind = "short" THEN "MalformedHeader" ELSE "ReadFailed",
          events |-> <<>>, seen |-> <<>>]
    ELSE LET a  == IF UpdateAcksOnRead
                   THEN CalcAckMask(lastSeenSeq, lastAckMask, in.p.Seq)
                   ELSE [lastSeenSeq |-> lastSeenSeq, lastAckMask |-> lastAckMask]
             pa == ProccessAcks(acksNeeded, in.p)
             saw(n) == [lastSeenSeq |-> a.lastSeenSeq,
                        lastAckMask |-> a.lastAckMask, len |-> n]
         IN  [lastSeenSeq |-> a.lastSeenSeq, lastAckMask |-> a.lastAckMask,
              list |-> pa.list, p |-> in.p, err |-> "nil",
              events |-> <<[ev |-> "OnPacketRead", id |-> Len(acksNeeded)]>>
                            \o pa.events,
              seen |-> <<saw(Len(acksNeeded))>>
                          \o [i \in 1..Len(pa.events) |-> saw(Len(acksNeeded) - i)]]

\* c.Read()
DoRead(in) ==
    /\ socketOpen \/ in.kind = "ioerror"
    /\ LET r == Read(in)
       IN  /\ lastSeenSeq' = r.lastSeenSeq
           /\ lastAckMask' = r.lastAckMask
           /\ acksNeeded' = r.list
           /\ last' = Result("Read", r.err, FALSE, r.p, <<>>, r.events, 0)
           /\ Record(<<>>, r.events, 0)
           /\ readSeqs' = IF r.err = "nil" THEN readSeqs \cup {r.p.Seq} ELSE readSeqs
           /\ seen' = r.seen
    /\ UNCHANGED <<nextSeq, RemoteAddress, UpdateAcksOnRead, sockVars, created,
                   sends, retryCountOf, newSeqErrs, seqVars, pureVars,
                   peerVars>>

\* Tick that hands the error of its read back when the retry loop had none
TickReturn_KeepReadErr(p, readErr, retryErr) ==
    [read |-> p # NoPacket,
     err  |-> IF retryErr # "nil" THEN retryErr ELSE readErr]

\* what Tick returns once its read gave (p, readErr) and the retry loop
\* gave retryErr: err is assigned again from RetryReliablePackets
TickReturn(p, readErr, retryErr) ==
    [read |-> p # NoPacket, err |-> retryErr]

\* Tick that runs the retry loop before it reads
Tick_RetryFirst(in, failAt) ==
    /\ socketOpen \/ (in.kind = "ioerror" /\ failAt = IF acksNeeded = <<>> THEN 0 ELSE 1)
    /\ LET t   == RetryReliablePackets(acksNeeded, nextSeq, failAt)
           r   == Read(in)
           pa  == IF r.p # NoPacket THEN ProccessAcks(t.list, r.p)
                  ELSE [list |-> t.list, events |-> <<>>]
           evs == t.events \o (IF r.p # NoPacket
                                THEN <<[ev |-> "OnPacketRead", id |-> Len(t.list)]>>
                                ELSE <<>>) \o pa.events
       IN  /\ lastSeenSeq' = r.lastSeenSeq
           /\ lastAckMask' = r.lastAckMask
           /\ acksNeeded' = pa.list
           /\ nextSeq' = t.nextSeq
           /\ last' = Result("Tick", t.err, r.p # NoPacket, r.p, t.out, evs,
                             t.errId)
           /\ Record(t.out, evs, t.errId)
           /\ readSeqs' = IF r.p # NoPacket THEN readSeqs \cup {r.p.Seq}
                          ELSE readSeqs
           /\ newSeqErrs' = IF t.err # "nil" THEN newSeqErrs + 1 ELSE newSeqErrs
           /\ seen' = <<>>
           /\ RecordSeqs(t.out, t.errId, t.nextSeq)
    /\ UNCHANGED <<RemoteAddress, UpdateAcksOnRead, sockVars, created, sends,
                   retryCountOf, pureVars, peerVars>>

\* c.Tick(); r is what c.Read() gave and t what c.RetryReliablePackets() gave
Tick(in, failAt) ==
    /\ socketOpen \/ (in.kind = "ioerror" /\ failAt = IF acksNeeded = <<>> THEN 0 ELSE 1)
    /\ \E r \in {Read(in)} :
          IF r.err = "nil" /\ r.p # NoPacket
          THEN /\ lastSeenSeq' = r.lastSeenSeq
               /\ lastAckMask' = r.lastAckMask
               /\ acksNeeded' = r.list
               /\ nextSeq' = nextSeq
               /\ last' = Result("Tick", "nil", TRUE, r.p, <<>>, r.events, 0)
               /\ Record(<<>>, r.events, 0)
               /\ readSeqs' = readSeqs \cup {r.p.Seq}
               /\ newSeqErrs' = newSeqErrs
               /\ seen' = r.seen
               /\ UNCHANGED seqVars
          ELSE \E t \in {RetryReliablePackets(r.list, nextSeq, failAt)} :
                  LET ret == TickReturn(r.p, r.err, t.err)
                  IN  /\ lastSeenSeq' = r.lastSeenSeq
                      /\ lastAckMask' = r.lastAckMask
                      /\ acksNeeded' = t.list
                      /\ nextSeq' = t.nextSeq
                      /\ last' = Result("Tick", ret.err, ret.read, r.p, t.out,
                                        r.events \o t.events, t.errId)
                      /\ Record(t.out, r.events \o t.events, t.errId)
                      /\ readSeqs' = readSeqs
                      /\ newSeqErrs' = IF t.err # "nil" THEN newSeqErrs + 1
                                       ELSE newSeqErrs
                      /\ seen' = r.seen
                      /\ RecordSeqs(t.out, t.errId, t.nextSeq)
    /\ UNCHANGED <<RemoteAddress, UpdateAcksOnRead, sockVars, created, sends,
                   retryCountOf, pureVars,
                   peerVars>>

\* the clock advances by d units
ClockAdvance(d) ==
    /\ acksNeeded # <<>>
    /\ \A i \in DOMAIN acksNeeded : acksNeeded[i].nextCheck - d >= -MaxLate
    /\ acksNeeded' = [i \in DOMAIN acksNeeded |->
                        [acksNeeded[i] EXCEPT !.nextCheck = @ - d]]
    /\ last' = Result("ClockAdvance", "nil", FALSE, NoPacket, <<>>, <<>>, 0)
    /\ seen' = <<>>
    /\ UNCHANGED <<ackVars, nextSeq, RemoteAddress, UpdateAcksOnRead, sockVars,
                   histVars, seqVars, pureVars,
                   peerVars>>

ClockStep == \E d \in 1..MaxInterval : ClockAdvance(d)

\* the inputs of Tick: failAt only matters when the read gives no packet
TickStep ==
    \E in \in ReadInputs :
        \E failAt \in 0..(IF in.kind = "packet" THEN 0 ELSE Len(acksNeeded)) :
            Tick(in, failAt)

Next ==
    \/ \E p \in CallerPackets, generateNewSeq \in BOOLEAN, remote \in BOOLEAN,
          writeOk \in BOOLEAN :
            DoSend(p, generateNewSeq, remote, writeOk)
    \/ \E p \in CallerPackets, retryInterval \in 1..MaxInterval,
          retryCount \in 0..MaxRetry, generateNewSeq \in {TRUE},
          remote \in BOOLEAN, writeOk \in BOOLEAN :
            DoSendReliable(p, retryInterval, retryCount, generateNewSeq,
                           remote, writeOk)
    \/ TickStep
    \/ ClockStep

Spec == Init /\ [][Next]_vars

\* ------------------------------------------------------------------------
\* SpecLive: Tick keeps being called and the clock keeps advancing
\* ------------------------------------------------------------------------

NextLive ==
    \/ \E p \in CallerPackets, retryInterval \in 1..MaxInterval,
          retryCount \in 0..MaxRetry, remote \in BOOLEAN, writeOk \in BOOLEAN :
            DoSendReliable(p, retryInterval, retryCount, TRUE, remote, writeOk)
    \/ TickStep
    \/ ClockStep

SpecLive ==
    Init /\ [][NextLive]_vars /\ WF_vars(TickStep) /\ WF_vars(ClockStep)

\* ------------------------------------------------------------------------
\* SpecRead: a connection that only reads, over a wide range of sequences
\* ------------------------------------------------------------------------

\* what the socket may give to a blocking Read
WideReadInputs ==
    [kind : {"packet"},
     p : [Seq : 0..MaxReadSeq, AckSeq : {0}, AckMask : {{}}]]
      \cup [kind : {"ioerror", "short"}, p : {NoPacket}]

NextRead ==
    \E in \in WideReadInputs :
        /\ Cardinality(readSeqs) < MaxReads
        /\ DoRead(in)

SpecRead == Init /\ [][NextRead]_vars

\* ------------------------------------------------------------------------
\* SpecRetry: one reliable packet that is retransmitted RetryDepth times
\* while the peer acknowledges any of the sequence numbers it was given
\* ------------------------------------------------------------------------

\* the packets of a peer that acknowledges up to the last retransmission
RetryInPackets ==
    [Seq : {1}, AckSeq : 1..(RetryDepth + 1), AckMask : {{0}, {0, 1}}]

RetryTickStep ==
    \E in \in [kind : {"packet"}, p : RetryInPackets] \cup {[kind |-> "timeout", p |-> NoPacket]} :
        \E failAt \in 0..(IF in.kind = "packet" THEN 0 ELSE Len(acksNeeded)) :
            Tick(in, failAt)

NextRetry ==
    \/ \E p \in CallerPackets, retryInterval \in 1..MaxInterval :
          /\ created < FewRecords
          /\ DoSendReliable(p, retryInterval, RetryDepth, TRUE, TRUE, TRUE)
    \/ RetryTickStep
    \/ ClockStep

SpecRetry == Init /\ [][NextRetry]_vars

\* ------------------------------------------------------------------------
\* SpecFull: every operation of a Connection, Close and the switch
\* UpdateAcksOnRead included, on one reliable packet
\* ------------------------------------------------------------------------

\* Close that leaves the socket open
Close_KeepSocket == [isOpen |-> FALSE, socketOpen |-> TRUE]

\* Connection.Close: the flag and the socket after the call
Close == [isOpen |-> FALSE, socketOpen |-> FALSE]

\* c.Close()
DoClose ==
    /\ isOpen' = Close.isOpen
    /\ socketOpen' = Close.socketOpen
    /\ last' = Result("Close", "nil", FALSE, NoPacket, <<>>, <<>>, 0)
    /\ seen' = <<>>
    /\ UNCHANGED <<ackVars, nextSeq, acksNeeded, RemoteAddress, UpdateAcksOnRead,
                   histVars, seqVars, pureVars,
                   peerVars>>

\* c.UpdateAcksOnRead = b
SetUpdateAcksOnRead(b) ==
    /\ UpdateAcksOnRead # b
    /\ UpdateAcksOnRead' = b
    /\ last' = Result("SetUpdateAcksOnRead", "nil", FALSE, NoPacket, <<>>, <<>>, 0)
    /\ seen' = <<>>
    /\ UNCHANGED <<ackVars, nextSeq, acksNeeded, RemoteAddress, sockVars,
                   histVars, seqVars, pureVars,
                   peerVars>>

\* what the socket may give to a Read of SpecFull
FullReadInputs ==
    [kind : {"packet"},
     p : [Seq : 1..(MaxInSeq + 1), AckSeq : 1..MaxInAck, AckMask : {{0}}]]
      \cup [kind : {"ioerror", "short"}, p : {NoPacket}]

NextFull ==
    \/ \E p \in CallerPackets, remote \in BOOLEAN, writeOk \in BOOLEAN :
            DoSend(p, TRUE, remote, writeOk)
    \/ \E p \in CallerPackets, retryCount \in 0..MaxRetry, remote \in BOOLEAN,
          writeOk \in BOOLEAN :
          /\ created < FewRecords
          /\ DoSendReliable(p, MaxInterval, retryCount, TRUE, remote, writeOk)
    \/ \E in \in FullReadInputs : DoRead(in)
    \/ TickStep
    \/ ClockStep
    \/ DoClose
    \/ \E b \in BOOLEAN : SetUpdateAcksOnRead(b)

SpecFull == Init /\ [][NextFull]_vars

\* ------------------------------------------------------------------------
\* The ack test of ack_test.go
\* ------------------------------------------------------------------------

secArray == <<1, 2, 5, 3, 4, 5, 2, 6, 7, 8, 50>>

lssArray == <<1, 2, 5, 5, 5, 5, 5, 6, 7, 8, 50>>

maskArray == <<1, 3, 25, 29, 31, 31, 31, 63, 127, 255, 1>>

\* ------------------------------------------------------------------------
\* SpecAck: the pure operations applied to bounded inputs
\* ------------------------------------------------------------------------

\* the masks an initial state may hold: low bits and the two top bits
InitMasks == SUBSET {0, 1, MaskWidth - 2, MaskWidth - 1}

InitAck ==
    /\ lastSeenSeq \in 0..MaxSeq
    /\ lastAckMask \in InitMasks
    /\ nextSeq = 1
    /\ acksNeeded = <<>>
    /\ RemoteAddress = FALSE
    /\ UpdateAcksOnRead = TRUE
    /\ last = Result("New", "nil", FALSE, NoPacket, <<>>, <<>>, 0)
    /\ created = 0
    /\ sends = 0
    /\ tx = [id \in Ids |-> 0]
    /\ txErr = [id \in Ids |-> 0]
    /\ onAck = [id \in Ids |-> 0]
    /\ onFail = [id \in Ids |-> 0]
    /\ retryCountOf = [id \in Ids |-> -1]
    /\ readSeqs = {}
    /\ lastNewSeq = 0
    /\ newSeqErrs = 0
    /\ isOpen = TRUE
    /\ socketOpen = TRUE
    /\ seen = <<>>
    /\ lastTxSeq = [id \in Ids |-> 0]
    /\ oldTxSeqs = [id \in Ids |-> {}]
    /\ lastTrySeq = [id \in Ids |-> 0]
    /\ call = NoCall
    /\ script = IF lastSeenSeq = 0 /\ lastAckMask = {} THEN 0 ELSE -1
    /\ calls = 0
    /\ peer = NewPeer
    /\ wire = {}

\* a direct call c.CalcAckMask(currentSeq)
CallCalcAckMask(currentSeq) ==
    /\ calls < MaxCalls
    /\ LET r == CalcAckMask(lastSeenSeq, lastAckMask, currentSeq)
       IN  /\ lastSeenSeq' = r.lastSeenSeq
           /\ lastAckMask' = r.lastAckMask
           /\ call' = [op |-> "CalcAckMask", lss |-> lastSeenSeq,
                       curMask |-> lastAckMask, cur |-> currentSeq,
                       mask |-> r.mask, seq |-> r.seq]
    /\ script' = -1
    /\ calls' = calls + 1
    /\ UNCHANGED <<connVars, sockVars, histVars, seen, seqVars, peerVars>>

\* the direct call c.CalcAckMask(currentSeq) made a second time with the same
\* currentSeq; before is the ACK state the first call left
CallCalcAckMaskAgain ==
    /\ call.op = "CalcAckMask"
    /\ LET r == CalcAckMask(lastSeenSeq, lastAckMask, call.cur)
       IN  /\ lastSeenSeq' = r.lastSeenSeq
           /\ lastAckMask' = r.lastAckMask
           /\ call' = [op |-> "CalcAckMaskAgain", first |-> call.lss,
                       cur |-> call.cur,
                       before |-> <<lastSeenSeq, lastAckMask>>,
                       mask |-> r.mask, seq |-> r.seq]
    /\ UNCHANGED <<script, calls, connVars, sockVars, histVars, seen, seqVars,
                   peerVars>>

\* one round of ackTestServer: the next sequence of secArray is read
AckTestStep ==
    /\ script >= 0
    /\ script < Len(secArray)
    /\ LET r == CalcAckMask(lastSeenSeq, lastAckMask, secArray[script + 1])
       IN  /\ lastSeenSeq' = r.lastSeenSeq
           /\ lastAckMask' = r.lastAckMask
    /\ script' = script + 1
    /\ UNCHANGED <<call, calls, connVars, sockVars, histVars, seen, seqVars,
                   peerVars>>

\* a direct call p.IsAckBy(ackPacket), the ack fields of ackPacket being
\* the ACK state a peer's Send would stamp
CallIsAckBy(pSeq) ==
    /\ calls < MaxCalls
    /\ LET q == [AckSeq |-> lastSeenSeq, AckMask |-> lastAckMask]
       IN  call' = [op |-> "IsAckBy", pSeq |-> pSeq, AckSeq |-> q.AckSeq,
                    AckMask |-> q.AckMask, ret |-> IsAckBy(pSeq, q)]
    /\ calls' = calls + 1
    /\ UNCHANGED <<lastSeenSeq, lastAckMask, script, connVars, sockVars,
                   histVars, seen, seqVars, peerVars>>

\* a direct call calcNewAckMask(lss, cur, curmask) with the ACK state of
\* the connection as lss and curmask
CallCalcNewAckMask(cur) ==
    /\ calls < MaxCalls
    /\ LET r == calcNewAckMask(lastSeenSeq, cur, lastAckMask)
       IN  call' = [op |-> "calcNewAckMask", lss |-> lastSeenSeq,
                    curMask |-> lastAckMask, cur |-> cur,
                    mask |-> r.mask, seq |-> r.seq]
    /\ calls' = calls + 1
    /\ UNCHANGED <<lastSeenSeq, lastAckMask, script, connVars, sockVars,
                   histVars, seen, seqVars, peerVars>>

NextAck ==
    \/ \E currentSeq \in 0..MaxSeq : CallCalcAckMask(currentSeq)
    \/ \E cur \in 0..MaxSeq : CallCalcNewAckMask(cur)
    \/ CallCalcAckMaskAgain
    \/ AckTestStep
    \/ \E pSeq \in 0..MaxSeq : CallIsAckBy(pSeq)

SpecAck == InitAck /\ [][NextAck]_vars

\* ------------------------------------------------------------------------
\* SpecOrder: two sequence numbers read in either order
\* ------------------------------------------------------------------------

\* an ACK state a connection can be in: nothing read, or sequence 0 read, or
\* lastSeenSeq read (bit 0) and bits only for sequence numbers from 0 up
InitOrder ==
    /\ InitAck
    /\ script = -1
    /\ IF lastSeenSeq = 0 THEN lastAckMask \subseteq {0}
       ELSE /\ 0 \in lastAckMask
            /\ \A k \in lastAckMask : k <= lastSeenSeq

\* c.CalcAckMask(a) then c.CalcAckMask(b); ba is the ACK state the same
\* connection would hold after c.CalcAckMask(b) then c.CalcAckMask(a)
CallBothOrders(a, b) ==
    /\ calls < MaxCalls
    /\ LET a1 == CalcAckMask(lastSeenSeq, lastAckMask, a)
           ab == CalcAckMask(a1.lastSeenSeq, a1.lastAckMask, b)
           b1 == CalcAckMask(lastSeenSeq, lastAckMask, b)
           ba == CalcAckMask(b1.lastSeenSeq, b1.lastAckMask, a)
       IN  /\ lastSeenSeq' = ab.lastSeenSeq
           /\ lastAckMask' = ab.lastAckMask
           /\ call' = [op |-> "BothOrders", lss |-> lastSeenSeq,
                       curMask |-> lastAckMask, a |-> a, b |-> b,
                       ba |-> <<ba.lastSeenSeq, ba.lastAckMask>>]
    /\ calls' = calls + 1
    /\ UNCHANGED <<script, connVars, sockVars, histVars, seen, seqVars, peerVars>>

NextOrder == \E a \in 0..MaxSeq, b \in 0..MaxSeq : CallBothOrders(a, b)

SpecOrder == InitOrder /\ [][NextOrder]_vars

\* ------------------------------------------------------------------------
\* The wire format of packet.go
\* ------------------------------------------------------------------------

\* binary.Size(uint32(1))*5 + binary.Size(uint8(1))
payloadOffset == 4 * 5 + 1

\* make([]byte, size) with the bytes b copied in: copy stops at the shorter
MakeCopy(size, b) ==
    [i \in 1..size |-> IF i <= Len(b) THEN b[i] ELSE 0]

\* binary.Write of a uint32 in byteOrder (big endian), v < 2^31
PutUint32(v) ==
    <<(v \div 16777216) % 256, (v \div 65536) % 256, (v \div 256) % 256,
      v % 256>>

\* binary.Read of a uint32 in byteOrder (big endian) from b at offset off
Uint32(b, off) ==
    ((b[off + 1] * 256 + b[off + 2]) * 256 + b[off + 3]) * 256 + b[off + 4]

\* byte k (0 = least significant) of a mask held as a set of bit indices
RECURSIVE MaskByte(_, _, _)
MaskByte(mask, k, j) ==
    IF j > 7 THEN 0
    ELSE (IF (8 * k + j) \in mask THEN 2^j ELSE 0) + MaskByte(mask, k, j + 1)

\* binary.Write of a uint32 mask in byteOrder
PutMask(mask) ==
    <<MaskByte(mask, 3, 0), MaskByte(mask, 2, 0), MaskByte(mask, 1, 0),
      MaskByte(mask, 0, 0)>>

\* binary.Read of a uint32 mask in byteOrder from b at offset off
MaskOf(b, off) ==
    UNION {{8 * (3 - k) + j : j \in {i \in 0..7 : (b[off + 1 + k] \div 2^i) % 2 = 1}}
              : k \in 0..3}

\* no packet (a nil *Packet)
NilPacket ==
    [ClientId |-> -1, Seq |-> -1, Chan |-> -1, AckSeq |-> -1, AckMask |-> {},
     PayloadSize |-> -1, Payload |-> <<>>]

\* NewPacket(id, seq, ch, ack, m, size, b)
NewPacket(id, seq, ch, ack, m, size, b) ==
    [ClientId |-> id, Seq |-> seq, Chan |-> ch, AckSeq |-> ack, AckMask |-> m,
     PayloadSize |-> size, Payload |-> MakeCopy(size, b)]

\* Packet.WriteTo: the bytes left in the buffer after Reset and the writes
WriteTo(p) ==
    PutUint32(p.ClientId) \o PutUint32(p.Seq) \o <<p.Chan>>
        \o PutUint32(p.AckSeq) \o PutMask(p.AckMask) \o PutUint32(p.PayloadSize)
        \o SubSeq(p.Payload, 1, p.PayloadSize)

\* NewPacketFrom that reads Seq before ClientId
NewPacketFrom_SeqFirst(n, b) ==
    IF n < payloadOffset
    THEN [p |-> NilPacket, err |-> "Not enough bytes"]
    ELSE [p |-> [ClientId    |-> Uint32(b, 4),
                 Seq         |-> Uint32(b, 0),
                 Chan        |-> b[9],
                 AckSeq      |-> Uint32(b, 9),
                 AckMask     |-> MaskOf(b, 13),
                 PayloadSize |-> Uint32(b, 17),
                 Payload     |-> MakeCopy(n + 1, SubSeq(b, payloadOffset + 1, Len(b)))],
          err |-> "nil"]

\* NewPacketFrom that asks for one byte more than the header
NewPacketFrom_NeedsPayload(n, b) ==
    IF n <= payloadOffset
    THEN [p |-> NilPacket, err |-> "Not enough bytes"]
    ELSE [p |-> [ClientId    |-> Uint32(b, 0),
                 Seq         |-> Uint32(b, 4),
                 Chan        |-> b[9],
                 AckSeq      |-> Uint32(b, 9),
                 AckMask     |-> MaskOf(b, 13),
                 PayloadSize |-> Uint32(b, 17),
                 Payload     |-> MakeCopy(n + 1, SubSeq(b, payloadOffset + 1, Len(b)))],
          err |-> "nil"]

\* NewPacketFrom(n, b) for n <= len(b): the header fields are read from the
\* front of b, PayloadSize as the header gives it; Payload is a new slice of
\* n + 1 bytes that receives b[payloadOffset:], as far as either reaches
NewPacketFrom(n, b) ==
    IF n < payloadOffset
    THEN [p |-> NilPacket, err |-> "Not enough bytes"]
    ELSE [p |-> [ClientId    |-> Uint32(b, 0),
                 Seq         |-> Uint32(b, 4),
                 Chan        |-> b[9],
                 AckSeq      |-> Uint32(b, 9),
                 AckMask     |-> MaskOf(b, 13),
                 PayloadSize |-> Uint32(b, 17),
                 Payload     |-> MakeCopy(n + 1, SubSeq(b, payloadOffset + 1, Len(b)))],
          err |-> "nil"]

\* Socket.ReadFromUDP(c.buffer) of one datagram: the first n bytes of the
\* buffer receive the datagram, cut to the buffer; the rest of the buffer
\* keeps what it held (stale)
ReadFromUDP(datagram, bufferSize, stale) ==
    LET n == IF Len(datagram) < bufferSize THEN Len(datagram) ELSE bufferSize
    IN  [n |-> n,
         buffer |-> [i \in 1..bufferSize |->
                        IF i <= n THEN datagram[i] ELSE stale]]

\* ------------------------------------------------------------------------
\* SpecCodec: packets built, encoded, received and decoded
\* ------------------------------------------------------------------------

\* values of the 32 bit header fields: none, one byte, bytes of all ranks
CodecWords == {0, 258, 16909060}

\* values of Chan
CodecChans == {0, 255}

\* values of AckMask
CodecMasks == {{}, {0, MaskWidth - 1}, {8, 17}}

\* payload bytes
CodecBytes == {7, 200}

\* the bytes a read buffer holds from earlier reads
StaleBytes == {0, 170}

RECURSIVE SeqsUpTo(_, _)
SeqsUpTo(S, n) ==
    IF n = 0 THEN {<<>>}
    ELSE LET shorter == SeqsUpTo(S, n - 1)
         IN  shorter \cup {Append(q, x) : q \in shorter, x \in S}

\* the packets a caller builds with NewPacket
CodecPackets ==
    {NewPacket(id, seq, ch, ack, m, Len(b), b) :
        id \in {0, 258}, seq \in CodecWords, ch \in CodecChans,
        ack \in {0, 258}, m \in CodecMasks,
        b \in SeqsUpTo(CodecBytes, MaxPayload)}

\* the sizes of the buffer a connection reads into (New(bufferSize))
BufferSizes == (payloadOffset - 1)..(payloadOffset + MaxPayload + MaxSlack)

InitCodec ==
    /\ lastSeenSeq = 0
    /\ lastAckMask = {}
    /\ nextSeq = 1
    /\ acksNeeded = <<>>
    /\ RemoteAddress = FALSE
    /\ UpdateAcksOnRead = TRUE
    /\ last = Result("New", "nil", FALSE, NoPacket, <<>>, <<>>, 0)
    /\ created = 0
    /\ sends = 0
    /\ tx = [id \in Ids |-> 0]
    /\ txErr = [id \in Ids |-> 0]
    /\ onAck = [id \in Ids |-> 0]
    /\ onFail = [id \in Ids |-> 0]
    /\ retryCountOf = [id \in Ids |-> -1]
    /\ readSeqs = {}
    /\ lastNewSeq = 0
    /\ newSeqErrs = 0
    /\ isOpen = TRUE
    /\ socketOpen = TRUE
    /\ seen = <<>>
    /\ lastTxSeq = [id \in Ids |-> 0]
    /\ oldTxSeqs = [id \in Ids |-> {}]
    /\ lastTrySeq = [id \in Ids |-> 0]
    /\ call \in {[op |-> "NewPacket", p |-> p] : p \in CodecPackets}
    /\ script = -1
    /\ calls = 0
    /\ peer = NewPeer
    /\ wire = {}

\* p.WriteTo(&c.packetBuffer) on the packet just built
CallWriteTo ==
    /\ call.op = "NewPacket"
    /\ call' = [op |-> "WriteTo", p |-> call.p, bytes |-> WriteTo(call.p)]
    /\ UNCHANGED <<ackVars, connVars, sockVars, histVars, seen, seqVars,
                   script, calls, peerVars>>

\* NewPacketFrom(len(bytes), bytes) on the bytes WriteTo produced
CallNewPacketFrom ==
    /\ call.op = "WriteTo"
    /\ LET r == NewPacketFrom(Len(call.bytes), call.bytes)
       IN  call' = [op |-> "NewPacketFrom", p |-> call.p, bytes |-> call.bytes,
                    n |-> Len(call.bytes), buffer |-> call.bytes,
                    q |-> r.p, err |-> r.err]
    /\ UNCHANGED <<ackVars, connVars, sockVars, histVars, seen, seqVars,
                   script, calls, peerVars>>

\* the first two statements of Connection.Read on a connection whose buffer
\* has bufferSize bytes, when the datagram on the socket is the one WriteTo
\* produced
CallReadPacket(bufferSize, stale) ==
    /\ call.op = "WriteTo"
    /\ LET rd == ReadFromUDP(call.bytes, bufferSize, stale)
           r  == NewPacketFrom(rd.n, rd.buffer)
       IN  call' = [op |-> "ReadPacket", p |-> call.p, bytes |-> call.bytes,
                    n |-> rd.n, buffer |-> rd.buffer, q |-> r.p, err |-> r.err]
    /\ UNCHANGED <<ackVars, connVars, sockVars, histVars, seen, seqVars,
                   script, calls, peerVars>>

NextCodec ==
    \/ CallWriteTo
    \/ CallNewPacketFrom
    \/ \E bufferSize \in BufferSizes, stale \in StaleBytes :
          CallReadPacket(bufferSize, stale)

SpecCodec == InitCodec /\ [][NextCodec]_vars

\* ------------------------------------------------------------------------
\* SpecBurst: a client sends reliable packets to a peer that reads them and
\* replies, as reliableClient and reliableServer do
\* ------------------------------------------------------------------------

\* the client: npConn.SendReliable(packet.MakeReliable(...), true, nil) on a
\* connection that has a remote address
BurstSend ==
    /\ nextSeq <= MaxBurst
    /\ peer.nextSeq = 1
    /\ LET rp == MakeReliable(nextSeq, [Seq |-> 0, AckSeq |-> 0, AckMask |-> {},
                                        RemoteAddress |-> FALSE],
                              MaxInterval, MaxRetry)
           s  == SendReliable(acksNeeded, nextSeq, rp, TRUE, RemoteAddress, TRUE)
       IN  /\ nextSeq' = s.nextSeq
           /\ acksNeeded' = s.list
           /\ last' = Result("SendReliable", s.err, FALSE, NoPacket, s.out, <<>>, 0)
           /\ wire' = wire \cup {s.out[i].Seq : i \in DOMAIN s.out}
    /\ seen' = <<>>
    /\ UNCHANGED <<ackVars, RemoteAddress, UpdateAcksOnRead, sockVars, histVars,
                   seqVars, pureVars, peer>>

\* the peer: npConn.Read() of the datagram with sequence seq, which updates
\* the peer's ACK state
PeerRead(seq) ==
    /\ seq \in wire
    /\ \A other \in wire : seq <= other + Reorder
    /\ peer.nextSeq = 1
    /\ LET a == CalcAckMask(peer.lastSeenSeq, peer.lastAckMask, seq)
       IN  peer' = [peer EXCEPT !.lastSeenSeq = a.lastSeenSeq,
                                !.lastAckMask = a.lastAckMask,
                                !.readSeqs = @ \cup {seq}]
    /\ wire' = wire \ {seq}
    /\ UNCHANGED <<ackVars, connVars, sockVars, histVars, seen, seqVars,
                   pureVars>>

\* the peer: npConn.Send(pong, true, clientAddr), which stamps the packet
\* with the peer's counter and ACK state, and the client's Read of it
PeerReply ==
    /\ peer.nextSeq <= MaxReplies
    /\ LET g    == GetNextSeq(peer.nextSeq)
           pong == [Seq |-> g.seq, AckSeq |-> peer.lastSeenSeq,
                    AckMask |-> peer.lastAckMask]
           r    == Read([kind |-> "packet", p |-> pong])
       IN  /\ peer' = [peer EXCEPT !.nextSeq = g.nextSeq]
           /\ lastSeenSeq' = r.lastSeenSeq
           /\ lastAckMask' = r.lastAckMask
           /\ acksNeeded' = r.list
           /\ last' = Result("Read", r.err, FALSE, r.p, <<>>, r.events, 0)
           /\ seen' = r.seen
    /\ UNCHANGED <<nextSeq, RemoteAddress, UpdateAcksOnRead, sockVars, histVars,
                   seqVars, pureVars, wire>>

NextBurst ==
    \/ BurstSend
    \/ \E seq \in 1..MaxBurst : PeerRead(seq)
    \/ PeerReply

\* the client of reliableClient is made with a remote address
InitBurst == Init /\ RemoteAddress

SpecBurst == InitBurst /\ [][NextBurst]_vars

\* ------------------------------------------------------------------------
\* Claims
\* ------------------------------------------------------------------------

\* the update rule of the ACK engine as the specification states it
RefAckUpdate(lss, m, cur) ==
    IF cur > lss
    THEN LET d == cur - lss
         IN  <<cur, (IF d < 32 THEN {k + d : k \in {j \in m : j + d < 32}} ELSE {}) \cup {0}>>
    ELSE LET d == lss - cur
         IN  <<lss, IF d < 32 THEN m \cup {d} ELSE m>>

\* C1: after CalcAckMask(cur) the ACK state is the one the reference rule
\* gives for the state before the call, and the inputs 1,2,5,3,4,5,2,6,7,8,50
\* applied from (0,0) give the listed (last_seen_seq, ack_mask) pairs.
C1_CalcAckMaskRule ==
    /\ call.op = "CalcAckMask" =>
          <<lastSeenSeq, lastAckMask>> = RefAckUpdate(call.lss, call.curMask, call.cur)
    /\ script >= 1 =>
          /\ lastSeenSeq = lssArray[script]
          /\ lastAckMask = Bits(maskArray[script])

C1_Witness ==
    /\ script = Len(secArray)
    /\ lastSeenSeq = 50
    /\ lastAckMask = {0}

\* C3: p.IsAckBy(q) is true exactly when q.ack_seq >= p.seq, q.ack_seq - p.seq
\* is below 32 and bit (q.ack_seq - p.seq) of q.ack_mask is set.
C3_IsAckByRule ==
    call.op = "IsAckBy" =>
        (call.ret <=> /\ call.AckSeq >= call.pSeq
                      /\ call.AckSeq - call.pSeq < 32
                      /\ (call.AckSeq - call.pSeq) \in call.AckMask)

C3_Witness ==
    /\ call.op = "IsAckBy"
    /\ call.ret
    /\ call.AckSeq - call.pSeq = 31

\* C2: with UpdateAcksOnRead set, bit k of the mask is set exactly when
\* k <= last_seen_seq and a packet with sequence last_seen_seq - k was read.
C2_MaskIsWindowOfReads ==
    UpdateAcksOnRead =>
        \A k \in 0..31 :
            (k \in lastAckMask) <=>
                (k <= lastSeenSeq /\ (lastSeenSeq - k) \in readSeqs)

C2_Witness ==
    /\ UpdateAcksOnRead
    /\ 31 \in lastAckMask
    /\ \E s \in readSeqs : lastSeenSeq - s >= 32

\* the record with identity id is in the list
InFlightIn(list, id) == \E i \in DOMAIN list : list[i].id = id

InFlight(id) == InFlightIn(acksNeeded, id)

\* the matching rule of the specification: packet q acknowledges sequence seq
Acknowledges(q, seq) ==
    /\ q.AckSeq >= seq
    /\ q.AckSeq - seq < 32
    /\ (q.AckSeq - seq) \in q.AckMask

\* the datagrams of an operation that were sent with generateNewSeq
NewSeqs(out) == SelectSeq(out, LAMBDA d : d.gen)

C5_FirstSeqIsOne ==
    [][LET new == NewSeqs(last'.out)
       IN  new # <<>> =>
             /\ \A i \in 1..(Len(new) - 1) : new[i].Seq < new[i + 1].Seq
             /\ lastNewSeq < new[1].Seq
             /\ lastNewSeq = 0 => new[1].Seq = 1]_vars

\* C5 amended: the datagrams sent with generate_new_seq carry strictly
\* increasing sequence numbers in transmission order, and the first carries
\* 1 plus the number of earlier sends with generate_new_seq that failed.
C5_SeqsIncrease ==
    [][LET new == NewSeqs(last'.out)
       IN  new # <<>> =>
             /\ \A i \in 1..(Len(new) - 1) : new[i].Seq < new[i + 1].Seq
             /\ lastNewSeq < new[1].Seq
             /\ lastNewSeq = 0 => new[1].Seq = 1 + newSeqErrs]_vars

C5_Witness ==
    /\ newSeqErrs >= 1
    /\ lastNewSeq >= 3
    /\ \E id \in Ids : tx[id] >= 2

\* C6: a Read that decodes q removes every in-flight record q acknowledges,
\* fires OnAck once for each of them and keeps every other record; a single
\* record that q acknowledges takes the length of the list from 1 to 0.
C6_ReadRetiresAcked ==
    [][last'.p # NoPacket =>
         LET q == last'.p
             acked(rp) == Acknowledges(q, rp.Packet.Seq)
         IN  /\ acksNeeded' = SelectSeq(acksNeeded, LAMBDA rp : ~acked(rp))
             /\ \A id \in Ids :
                   onAck'[id] = onAck[id] +
                       (IF \E i \in DOMAIN acksNeeded :
                              acksNeeded[i].id = id /\ acked(acksNeeded[i])
                        THEN 1 ELSE 0)
             /\ (Len(acksNeeded) = 1 /\ acked(acksNeeded[1]))
                   => Len(acksNeeded') = 0]_vars

C6_Witness ==
    /\ last.p # NoPacket
    /\ Len(acksNeeded) = 1
    /\ \E id \in Ids : onAck[id] = 1 /\ [ev |-> "OnAck", id |-> id] \in
                                          {last.events[i] : i \in DOMAIN last.events}

\* C7 as stated: a record with RetryCount N that is never acknowledged is
\* transmitted N + 1 times; then OnFailToAck fires once and the record is gone.
C7_TransmittedNPlusOne ==
    \A id \in Ids :
        retryCountOf[id] >= 0 =>
            /\ onFail[id] <= 1
            /\ onFail[id] = 1 =>
                  /\ ~InFlight(id)
                  /\ tx[id] = retryCountOf[id] + 1

\* C7 amended: a record with RetryCount N that is never acknowledged makes
\* N + 1 send attempts, each transmitted unless its socket write fails; on the
\* next timer expiry nothing is sent, OnFailToAck fires once and the record
\* is gone.
C7_AttemptsNPlusOne ==
    \A id \in Ids :
        retryCountOf[id] >= 0 =>
            /\ onFail[id] <= 1
            /\ onFail[id] = 1 =>
                  /\ ~InFlight(id)
                  /\ onAck[id] = 0
                  /\ tx[id] + txErr[id] = retryCountOf[id] + 1
            /\ \A i \in DOMAIN acksNeeded :
                  acksNeeded[i].id = id =>
                      /\ tx[id] + txErr[id] = acksNeeded[i].failCount + 1
                      /\ acksNeeded[i].failCount <= retryCountOf[id]

C7_Witness ==
    \E id \in Ids :
        /\ retryCountOf[id] >= 1
        /\ onFail[id] = 1
        /\ tx[id] = retryCountOf[id] + 1
        /\ acksNeeded = <<>>

\* C8: at most one of OnAck and OnFailToAck fires for a record, at most once,
\* and a record that left the list is not sent again, fires no callback again
\* and does not come back.
C8_OneCallbackOnce ==
    [][\A id \in Ids :
         /\ onAck'[id] + onFail'[id] <= 1
         /\ (retryCountOf[id] >= 0 /\ ~InFlight(id)) =>
               /\ tx'[id] = tx[id]
               /\ onAck'[id] = onAck[id]
               /\ onFail'[id] = onFail[id]
               /\ ~InFlightIn(acksNeeded', id)]_vars

C8_Witness ==
    \E a \in Ids, b \in Ids :
        /\ onAck[a] = 1
        /\ onFail[b] = 1
        /\ acksNeeded = <<>>

\* C9: while Tick keeps being called and the clock keeps advancing, every
\* record in the list eventually leaves it.
C9_EveryRecordLeaves ==
    \A id \in Ids : InFlight(id) ~> ~InFlight(id)

\* C10: every Tick makes one read attempt and then runs the retry loop over
\* the records in flight, also when the read returned a packet.
C10_TickAlwaysRetries ==
    [][last'.op = "Tick" =>
         LET afterRead == IF last'.p # NoPacket
                          THEN ProccessAcks(acksNeeded, last'.p).list
                          ELSE acksNeeded
         IN  \E failAt \in 0..Len(afterRead) :
                acksNeeded' = RetryReliablePackets(afterRead, nextSeq, failAt).list]_vars

\* the events of kind ev among the callbacks of the last operation
EventsOf(ev) == {i \in DOMAIN last.events : last.events[i].ev = ev}

\* C11: a Read that decodes q with UpdateAcksOnRead set applies the ACK update
\* for q before it scans the in-flight records: every OnAck fired by that Read
\* sees the updated (last_seen_seq, ack_mask), and the records q acknowledges
\* leave the list in that same Read or Tick.
C11_UpdateBeforeScan ==
    [][(last'.p # NoPacket /\ UpdateAcksOnRead) =>
         LET q   == last'.p
             upd == RefAckUpdate(lastSeenSeq, lastAckMask, q.Seq)
         IN  /\ <<lastSeenSeq', lastAckMask'>> = upd
             /\ Len(seen') = Len(last'.events)
             /\ \A i \in DOMAIN seen' :
                   last'.events[i].ev = "OnAck" =>
                       /\ seen'[i].lastSeenSeq = upd[1]
                       /\ seen'[i].lastAckMask = upd[2]
             /\ \A i \in DOMAIN acksNeeded :
                   Acknowledges(q, acksNeeded[i].Packet.Seq) =>
                       /\ ~InFlightIn(acksNeeded', acksNeeded[i].id)
                       /\ onAck'[acksNeeded[i].id] = 1]_vars

C11_Witness ==
    /\ last.op = "Tick"
    /\ last.p # NoPacket
    /\ lastSeenSeq = last.p.Seq
    /\ \E i \in EventsOf("OnAck") :
          /\ seen[i].lastSeenSeq = last.p.Seq
          /\ 0 \in seen[i].lastAckMask
          /\ onAck[last.events[i].id] = 1

\* C12: OnPacketRead fires after ProccessAcks ran for the packet: it comes
\* after every OnAck of that Read, and the list it sees is the list the Read
\* leaves, without the records the packet acknowledges.
C12_CallbackAfterAcks ==
    \A i \in EventsOf("OnPacketRead") :
        /\ \A j \in EventsOf("OnAck") : j < i
        /\ seen[i].len = Len(acksNeeded)

\* a read that ends by deadline expiry
TimeoutRead == [kind |-> "timeout", p |-> NoPacket]

\* the reads that fail for another reason
FailedReads == [kind : {"ioerror", "short"}, p : {NoPacket}]

\* C16: a Tick whose read ends by deadline expiry returns read = false and
\* no read error: it returns nil or the send error of a retransmission.
C16_TimeoutIsNoError ==
    [][\A failAt \in 0..MaxRecords :
         Tick(TimeoutRead, failAt) =>
             /\ last'.read = FALSE
             /\ last'.p = NoPacket
             /\ last'.err \in {"nil", "SendFailed"}
             /\ last'.err = "SendFailed" <=> last'.errId # 0]_vars

C16_Witness ==
    /\ last.op = "Tick"
    /\ last.read = FALSE
    /\ last.err = "SendFailed"
    /\ last.errId # 0

\* C17: a Tick whose read fails for a reason other than deadline expiry
\* returns that read error.
C17_ReadErrorReturned ==
    [][\A in \in FailedReads, failAt \in 0..MaxRecords :
         Tick(in, failAt) => last'.err \in {"ReadFailed", "MalformedHeader"}]_vars

\* C19: SendReliable appends the record at the tail of the list with
\* next_check = now + retry_interval exactly when the send put its datagram
\* on the wire; when the send fails it returns the error and the list is
\* unchanged.
C19_EnqueueOnSuccess ==
    [][last'.op = "SendReliable" =>
         IF last'.out # <<>>
         THEN /\ last'.err = "nil"
              /\ Len(acksNeeded') = Len(acksNeeded) + 1
              /\ SubSeq(acksNeeded', 1, Len(acksNeeded)) = acksNeeded
              /\ LET rp == acksNeeded'[Len(acksNeeded')]
                 IN  /\ rp.id = created'
                     /\ rp.nextCheck = rp.RetryInterval
                     /\ rp.failCount = 0
                     /\ rp.Packet.Seq = last'.out[1].Seq
         ELSE /\ last'.err \in {"NoRemote", "SendFailed"}
              /\ acksNeeded' = acksNeeded]_vars

C19_Witness ==
    /\ last.op = "SendReliable"
    /\ last.err = "nil"
    /\ Len(acksNeeded) = 2
    /\ acksNeeded[2].id = created
    /\ acksNeeded[1].nextCheck < acksNeeded[2].nextCheck
    /\ txErr[1] = 1

\* C20: Send writes to the remote passed in when there is one, otherwise to
\* the connection's RemoteAddress, and returns the NoRemote error without
\* writing a datagram when neither is set.
C20_RemoteThenDefault ==
    [][\A p \in CallerPackets, generateNewSeq \in BOOLEAN, remote \in BOOLEAN,
          writeOk \in BOOLEAN :
         DoSend(p, generateNewSeq, remote, writeOk) =>
             /\ \A i \in DOMAIN last'.out :
                   last'.out[i].to = IF remote THEN "remote" ELSE "RemoteAddress"
             /\ (~remote /\ ~RemoteAddress) =>
                   (last'.err = "NoRemote" /\ last'.out = <<>>)
             /\ (remote \/ RemoteAddress) =>
                   /\ last'.err # "NoRemote"
                   /\ writeOk => Len(last'.out) = 1]_vars

C20_Witness ==
    /\ last.op = "Send"
    /\ RemoteAddress
    /\ last.err = "nil"
    /\ last.out[1].to = "remote"

\* C13 as stated: once a record has been retransmitted, a read retires it
\* only if the packet acknowledges the sequence number of its most recent
\* transmission; a packet that covers only an earlier transmission leaves it
\* in flight and fires no OnAck.
C13_LatestTransmissionOnly ==
    [][last'.p # NoPacket =>
         \A i \in DOMAIN acksNeeded :
             LET id == acksNeeded[i].id
                 q  == last'.p
             IN  oldTxSeqs[id] # {} =>
                   /\ ~InFlightIn(acksNeeded', id) => Acknowledges(q, lastTxSeq[id])
                   /\ ((\E old \in oldTxSeqs[id] : Acknowledges(q, old))
                          /\ ~Acknowledges(q, lastTxSeq[id])) =>
                         (InFlightIn(acksNeeded', id) /\ onAck'[id] = onAck[id])]_vars

\* C13 amended: every send of a record takes a sequence number the record
\* never carried before, and once it has been retransmitted a read retires
\* it exactly when the packet acknowledges the sequence number of its most
\* recent send attempt, which is the one of its most recent transmission
\* unless the last retransmission failed to send; a packet that covers only
\* earlier sequence numbers leaves it in flight and fires no OnAck.
C13_LatestAttemptOnly ==
    [][last'.p # NoPacket =>
         \A i \in DOMAIN acksNeeded :
             LET id == acksNeeded[i].id
                 q  == last'.p
             IN  oldTxSeqs[id] # {} =>
                   /\ lastTxSeq[id] \notin oldTxSeqs[id]
                   /\ lastTrySeq[id] \notin oldTxSeqs[id]
                   /\ lastTrySeq[id] >= lastTxSeq[id]
                   /\ txErr[id] = 0 => lastTrySeq[id] = lastTxSeq[id]
                   /\ InFlightIn(acksNeeded', id) <=> ~Acknowledges(q, lastTrySeq[id])
                   /\ onAck'[id] = IF Acknowledges(q, lastTrySeq[id]) THEN 1 ELSE 0]_vars

C13_Witness ==
    /\ last.p # NoPacket
    /\ \E id \in Ids :
          /\ InFlight(id)
          /\ onAck[id] = 0
          /\ \E old \in oldTxSeqs[id] : Acknowledges(last.p, old)
          /\ ~Acknowledges(last.p, lastTrySeq[id])

C15_CloseRetires ==
    [][~isOpen' =>
         /\ acksNeeded' = <<>>
         /\ ~isOpen => (tx' = tx /\ txErr' = txErr /\ onFail' = onFail)]_vars

\* C18: with UpdateAcksOnRead false, a Read that decodes q returns q, removes
\* the in-flight records q acknowledges and fires their OnAck, and leaves
\* last_seen_seq and ack_mask as they were.
C18_ReadWithoutAckUpdate ==
    [][(last'.p # NoPacket /\ ~UpdateAcksOnRead) =>
         LET q == last'.p
             acked(rp) == Acknowledges(q, rp.Packet.Seq)
         IN  /\ last'.err = "nil"
             /\ lastSeenSeq' = lastSeenSeq
             /\ lastAckMask' = lastAckMask
             /\ acksNeeded' = SelectSeq(acksNeeded, LAMBDA rp : ~acked(rp))
             /\ \A i \in DOMAIN acksNeeded :
                   acked(acksNeeded[i]) => onAck'[acksNeeded[i].id] = 1]_vars

C18_Witness ==
    /\ ~UpdateAcksOnRead
    /\ last.op = "Read"
    /\ last.p # NoPacket
    /\ last.p.Seq > lastSeenSeq
    /\ lastSeenSeq > 0
    /\ EventsOf("OnAck") # {}

\* C21: a Read that fails, on the socket or on a datagram shorter than the
\* header, leaves last_seen_seq, ack_mask, next_seq and the in-flight list
\* unchanged and fires neither OnPacketRead nor any OnAck.
C21_FailedReadChangesNothing ==
    [][(last'.op = "Read" /\ last'.err # "nil") =>
         /\ last'.p = NoPacket
         /\ UNCHANGED <<lastSeenSeq, lastAckMask, nextSeq, acksNeeded>>
         /\ last'.events = <<>>
         /\ seen' = <<>>
         /\ onAck' = onAck]_vars

C21_Witness ==
    /\ last.op = "Read"
    /\ last.err = "MalformedHeader"
    /\ acksNeeded # <<>>
    /\ lastSeenSeq > 0
    /\ isOpen

\* C28: CalcAckMask(cur) returns as (mask, seq) the ack_mask and the
\* last_seen_seq the connection holds after the update for cur.
C28_ReturnsNewAckState ==
    call.op = "CalcAckMask" =>
        /\ call.mask = lastAckMask
        /\ call.seq = lastSeenSeq

\* the largest of a non-empty finite set of numbers
MaxOf(S) == CHOOSE m \in S : \A n \in S : n <= m

\* C29: last_seen_seq never decreases, and with UpdateAcksOnRead set it is
\* the largest Seq among the packets read so far, 0 when none was read.
C29_LastSeenIsMaxRead ==
    [][/\ lastSeenSeq' >= lastSeenSeq
       /\ UpdateAcksOnRead' => lastSeenSeq' = MaxOf(readSeqs' \cup {0})]_vars

C29_Witness ==
    /\ UpdateAcksOnRead
    /\ last.op = "Read"
    /\ last.p # NoPacket
    /\ Cardinality(readSeqs) = 3
    /\ last.p.Seq < lastSeenSeq
    /\ lastSeenSeq = MaxOf(readSeqs)
    /\ lastSeenSeq - last.p.Seq > 32

\* C30: applying the ACK update for cur a second time changes nothing: the
\* state after the second application is the state after the first.
C30_UpdateIsIdempotent ==
    call.op = "CalcAckMaskAgain" =>
        <<lastSeenSeq, lastAckMask>> = call.before

C30_Witness ==
    /\ call.op = "CalcAckMaskAgain"
    /\ call.cur > call.first
    /\ call.cur - call.first < 32
    /\ Cardinality(lastAckMask) >= 3

\* the datagrams of record id among the datagrams out
SentOf(out, id) == {i \in DOMAIN out : out[i].rid = id}

\* the record with identity id in the list
RecordOf(list, id) == list[CHOOSE i \in DOMAIN list : list[i].id = id]

C26_IntervalBetweenSends ==
    [][\A id \in Ids :
         (last.op \in {"SendReliable", "Tick"} /\ SentOf(last.out, id) # {}) =>
             SentOf(last'.out, id) = {}]_vars

\* C26 amended: a record is retransmitted only once its next_check has
\* passed, and a retransmission made d after next_check puts the following
\* next_check at retry_interval - d from that moment, so that two consecutive
\* transmissions are retry_interval apart only when the earlier one was on
\* time, and follow each other at once when it was a full interval late.
C26_NextCheckFromSchedule ==
    [][last'.op = "Tick" =>
         \A i \in DOMAIN acksNeeded :
             LET rp == acksNeeded[i]
             IN  SentOf(last'.out, rp.id) # {} =>
                   /\ rp.nextCheck <= 0
                   /\ InFlightIn(acksNeeded', rp.id)
                   /\ RecordOf(acksNeeded', rp.id).nextCheck
                         = rp.RetryInterval - (0 - rp.nextCheck)]_vars

C26_Witness ==
    /\ last.op = "Tick"
    /\ \E i \in DOMAIN acksNeeded :
          /\ SentOf(last.out, acksNeeded[i].id) # {}
          /\ acksNeeded[i].failCount = 2
          /\ acksNeeded[i].nextCheck <= 0
          /\ tx[acksNeeded[i].id] = 3

\* the calls that decoded a datagram
Decoded == call.op \in {"NewPacketFrom", "ReadPacket"}

\* p and q agree in the six header fields
SameHeader(p, q) ==
    /\ q.ClientId = p.ClientId
    /\ q.Seq = p.Seq
    /\ q.Chan = p.Chan
    /\ q.AckSeq = p.AckSeq
    /\ q.AckMask = p.AckMask
    /\ q.PayloadSize = p.PayloadSize

C23_PayloadSizeClamped ==
    (Decoded /\ call.n >= payloadOffset) =>
        /\ call.q.PayloadSize <= call.n - payloadOffset
        /\ Len(call.q.Payload) = call.q.PayloadSize

\* C24: decoding an input of n < 21 bytes returns an error and no packet, and
\* decoding an input of n >= 21 bytes returns a packet and no error.
C24_HeaderLength ==
    /\ payloadOffset = 21
    /\ Decoded =>
          IF call.n < payloadOffset
          THEN call.err # "nil" /\ call.q = NilPacket
          ELSE call.err = "nil" /\ call.q # NilPacket

C24_Witness ==
    /\ call.op = "ReadPacket"
    /\ call.n = payloadOffset
    /\ call.p.PayloadSize = MaxPayload
    /\ call.err = "nil"
    /\ call.q.PayloadSize = MaxPayload

\* the sequence numbers of the records in the list
SeqsInFlight(list) == {list[i].Packet.Seq : i \in DOMAIN list}

\* C27 as stated: when n <= 32 reliable packets with consecutive sequence
\* numbers are in flight and the peer has read them all, the Read of one
\* packet that the peer stamps with its current last_seen_seq and ack_mask
\* retires all n: the list is empty after it and OnAck fired once for each.
C27_OneReplyRetiresAll ==
    [][(/\ PeerReply
        /\ Len(acksNeeded) <= ackMaskDepth
        /\ \A i \in 1..(Len(acksNeeded) - 1) :
              acksNeeded[i + 1].Packet.Seq = acksNeeded[i].Packet.Seq + 1
        /\ SeqsInFlight(acksNeeded) \cap wire = {}) =>
         /\ acksNeeded' = <<>>
         /\ LET acks == SelectSeq(last'.events, LAMBDA e : e.ev = "OnAck")
            IN  /\ Len(acks) = Len(acksNeeded)
                /\ \A i \in DOMAIN acks : acks[i].id = acksNeeded[i].id]_vars

\* C27 amended: when n <= 32 reliable packets with consecutive sequence
\* numbers are in flight, the peer has read them all and the highest sequence
\* number the peer has read is less than 32 above the oldest of them, the
\* Read of one packet that the peer stamps with its current last_seen_seq and
\* ack_mask retires all n: the list is empty after it and OnAck fired once
\* for each record, in list order.
C27_OneReplyRetiresRecent ==
    [][(/\ PeerReply
        /\ Len(acksNeeded) <= ackMaskDepth
        /\ \A i \in 1..(Len(acksNeeded) - 1) :
              acksNeeded[i + 1].Packet.Seq = acksNeeded[i].Packet.Seq + 1
        /\ SeqsInFlight(acksNeeded) \cap wire = {}
        /\ \A i \in DOMAIN acksNeeded :
              peer.lastSeenSeq - acksNeeded[i].Packet.Seq < ackMaskDepth) =>
         /\ acksNeeded' = <<>>
         /\ LET acks == SelectSeq(last'.events, LAMBDA e : e.ev = "OnAck")
            IN  /\ Len(acks) = Len(acksNeeded)
                /\ \A i \in DOMAIN acks : acks[i].id = acksNeeded[i].id]_vars

C27_Witness ==
    /\ last.op = "Read"
    /\ acksNeeded = <<>>
    /\ nextSeq = ackMaskDepth + 1
    /\ wire = {}
    /\ Len(last.events) = ackMaskDepth + 1
    /\ last.p.AckSeq = ackMaskDepth

\* C32: when the packet read by a Tick acknowledges a record whose retry
\* timer is due, the record is retired as acknowledged: OnAck fires, the
\* record is neither retransmitted nor failed in that Tick, and its failCount
\* is not incremented.
C32_AckBeatsRetry ==
    [][(last'.op = "Tick" /\ last'.p # NoPacket) =>
         \A i \in DOMAIN acksNeeded :
             LET rp == acksNeeded[i]
             IN  (rp.nextCheck <= 0 /\ IsAckBy(rp.Packet.Seq, last'.p)) =>
                   /\ ~InFlightIn(acksNeeded', rp.id)
                   /\ onAck'[rp.id] = onAck[rp.id] + 1
                   /\ onFail'[rp.id] = onFail[rp.id]
                   /\ tx'[rp.id] = tx[rp.id]
                   /\ txErr'[rp.id] = txErr[rp.id]
                   /\ SentOf(last'.out, rp.id) = {}
                   /\ tx[rp.id] + txErr[rp.id] = rp.failCount + 1]_vars

C32_Witness ==
    /\ last.op = "Tick"
    /\ last.read
    /\ [ev |-> "OnAck", id |-> 1] \in {last.events[i] : i \in DOMAIN last.events}
    /\ tx[1] + txErr[1] = 1
    /\ Len(acksNeeded) = 1
    /\ acksNeeded[1].id = 2
    /\ acksNeeded[1].nextCheck <= 0
    /\ acksNeeded[1].failCount = 0

\* C34: the retry loop stops at the first record whose retransmission fails
\* to send: Tick returns that error, the failing record stays in flight with
\* failCount incremented and next_check advanced, and the records behind it
\* in the list are not examined: they are not changed, not sent, not failed.
C34_RetryStopsAtError ==
    [][(last'.op = "Tick" /\ last'.errId # 0) =>
         \E k \in DOMAIN acksNeeded :
             LET rp == acksNeeded[k]
             IN  /\ rp.id = last'.errId
                 /\ last'.err # "nil"
                 /\ rp.nextCheck <= 0
                 /\ InFlightIn(acksNeeded', rp.id)
                 /\ RecordOf(acksNeeded', rp.id).failCount = rp.failCount + 1
                 /\ RecordOf(acksNeeded', rp.id).nextCheck
                       = rp.nextCheck + rp.RetryInterval
                 /\ SentOf(last'.out, rp.id) = {}
                 /\ txErr'[rp.id] = txErr[rp.id] + 1
                 /\ \A j \in (k + 1)..Len(acksNeeded) :
                       /\ InFlightIn(acksNeeded', acksNeeded[j].id)
                       /\ RecordOf(acksNeeded', acksNeeded[j].id) = acksNeeded[j]
                       /\ SentOf(last'.out, acksNeeded[j].id) = {}
                       /\ onFail'[acksNeeded[j].id] = onFail[acksNeeded[j].id]]_vars

C34_Witness ==
    /\ last.op = "Tick"
    /\ last.err # "nil"
    /\ Len(acksNeeded) = 2
    /\ last.errId = acksNeeded[1].id
    /\ acksNeeded[1].failCount = 1
    /\ acksNeeded[2].nextCheck <= 0
    /\ acksNeeded[2].failCount = 0
    /\ tx[acksNeeded[2].id] = 1

\* C35: a Send with generate_new_seq that fails for want of a remote address
\* has advanced next_seq by one and written the taken sequence number and the
\* connection's ACK state into the caller's packet; no datagram is written,
\* and no later datagram carries the sequence number it took.
C35_FailedSendTakesSeq ==
    [][/\ \A p \in CallerPackets, remote \in BOOLEAN, writeOk \in BOOLEAN :
            (DoSend(p, TRUE, remote, writeOk) /\ ~remote /\ ~RemoteAddress) =>
               LET s == Send(nextSeq, p, TRUE, remote, writeOk, 0)
               IN  /\ last'.err = "NoRemote"
                   /\ last'.out = <<>>
                   /\ nextSeq' = nextSeq + 1
                   /\ s.p.Seq = nextSeq
                   /\ s.p.AckSeq = lastSeenSeq
                   /\ s.p.AckMask = lastAckMask
                   /\ s.p # p
       /\ \A i \in DOMAIN last'.out :
            last'.out[i].gen => /\ last'.out[i].Seq >= nextSeq
                                /\ last'.out[i].Seq < nextSeq']_vars

C35_Witness ==
    /\ last.op = "SendReliable"
    /\ last.err = "nil"
    /\ ~RemoteAddress
    /\ sends = 1
    /\ newSeqErrs = 1
    /\ created = 1
    /\ nextSeq = 3
    /\ last.out[1].Seq = 2

\* C38: the in-flight records carry pairwise distinct sequence numbers, each
\* below next_seq, and the length of the list is the number of SendReliable
\* calls that succeeded minus the number of records retired by OnAck or by
\* OnFailToAck.
C38_DistinctSeqsAndCount ==
    /\ \A i \in DOMAIN acksNeeded, j \in DOMAIN acksNeeded :
          i # j => acksNeeded[i].Packet.Seq # acksNeeded[j].Packet.Seq
    /\ \A i \in DOMAIN acksNeeded :
          /\ acksNeeded[i].Packet.Seq >= 1
          /\ acksNeeded[i].Packet.Seq < nextSeq
    /\ Len(acksNeeded) =
          Cardinality({id \in Ids : retryCountOf[id] >= 0})
            - Cardinality({id \in Ids : onAck[id] >= 1})
            - Cardinality({id \in Ids : onFail[id] >= 1})
    /\ \A id \in Ids : onAck[id] + onFail[id] <= 1

C38_Witness ==
    /\ Len(acksNeeded) = 1
    /\ acksNeeded[1].id = 2
    /\ acksNeeded[1].failCount = 1
    /\ tx[2] = 2
    /\ onAck[1] = 1
    /\ nextSeq = 4

\* C39: Send and SendReliable leave last_seen_seq and ack_mask as they are, a
\* plain Send leaves the in-flight list as it is, Read leaves next_seq as it
\* is.  The ACK state changes only in a step that read a packet, the counter
\* only in a step that made a send attempt.
C39_Frames ==
    [][/\ (sends' # sends \/ created' # created) =>
             <<lastSeenSeq', lastAckMask'>> = <<lastSeenSeq, lastAckMask>>
       /\ sends' # sends => acksNeeded' = acksNeeded
       /\ \A in \in FullReadInputs : DoRead(in) => nextSeq' = nextSeq
       /\ <<lastSeenSeq', lastAckMask'>> # <<lastSeenSeq, lastAckMask>> =>
             (last'.op \in {"Read", "Tick"} /\ last'.p # NoPacket)
       /\ nextSeq' # nextSeq =>
             /\ last'.op \in {"Send", "SendReliable", "Tick"}
             /\ last'.p = NoPacket
             /\ (last'.out # <<>> \/ last'.err # "nil")]_vars

C39_Witness ==
    /\ last.op = "Send"
    /\ last.err = "nil"
    /\ last.out # <<>>
    /\ lastSeenSeq > 0
    /\ lastSeenSeq < last.out[1].Seq
    /\ acksNeeded # <<>>

\* C36: from every ACK state, reading sequence a and then sequence b leaves
\* the same (last_seen_seq, ack_mask) as reading b and then a.
C36_OrderIndependent ==
    call.op = "BothOrders" => <<lastSeenSeq, lastAckMask>> = call.ba

C36_Witness ==
    /\ call.op = "BothOrders"
    /\ call.a < call.lss
    /\ (call.lss - call.a) \notin call.curMask
    /\ call.b - call.lss >= MaskWidth
    /\ lastAckMask = {0}

\* C37: calcNewAckMask(lastSeen, cur, mask) returns the (mask, last_seen_seq)
\* that Connection.CalcAckMask leaves in the connection, for every input.
C37_SameAsMethod ==
    call.op = "calcNewAckMask" =>
        LET m == CalcAckMask(call.lss, call.curMask, call.cur)
        IN  /\ call.mask = m.lastAckMask
            /\ call.seq = m.lastSeenSeq

\* C40: the decoded packet depends only on the first n bytes of the buffer
\* handed to the decoder: whatever the read buffer held behind the datagram,
\* the same header fields, payload bytes and payload length come out.
C40_OnlyFirstNBytes ==
    call.op = "ReadPacket" =>
        \A stale \in StaleBytes :
            LET other == ReadFromUDP(call.bytes, Len(call.buffer), stale)
                r     == NewPacketFrom(other.n, other.buffer)
            IN  /\ other.n = call.n
                /\ r.err = call.err
                /\ r.p = call.q

\* ------------------------------------------------------------------------
\* SpecPair: a connection that sends reliable packets to a peer connection
\* over a network that loses, duplicates and reorders datagrams; the peer
\* reads with UpdateAcksOnRead and sends with generateNewSeq = true
\* ------------------------------------------------------------------------

\* the datagram d of a connection as it travels to the socket of side to
Datagram(d, to) ==
    [to |-> to, Seq |-> d.Seq, AckSeq |-> d.AckSeq, AckMask |-> d.AckMask]

\* the datagrams that arrived for side to
Arrived(to) == {d \in wire : d.to = to}

\* the connection: SendReliable(MakeReliable(...), true, nil)
PairSendReliable ==
    \E p \in CallerPackets, retryInterval \in 1..MaxInterval :
        DoSendReliable(p, retryInterval, MaxRetry, TRUE, TRUE, TRUE)

\* the network carries a datagram the connection's last operation wrote to
\* the peer's socket; a datagram it has not carried when the connection acts
\* again is lost, and one it carried stays readable (duplicates, any order)
Carry ==
    \E i \in DOMAIN last.out :
        /\ Datagram(last.out[i], "peer") \notin wire
        /\ wire' = wire \cup {Datagram(last.out[i], "peer")}
        /\ UNCHANGED <<ackVars, connVars, sockVars, histVars, seen, seqVars,
                       pureVars, peer>>

\* the connection: Tick() that reads a datagram of the peer, or none
PairTick ==
    \E in \in {[kind |-> "packet",
                p |-> [Seq |-> d.Seq, AckSeq |-> d.AckSeq, AckMask |-> d.AckMask]] :
                  d \in Arrived("conn")}
              \cup {[kind |-> "timeout", p |-> NoPacket]} :
        Tick(in, 0)

\* the peer: Read() of a datagram that arrived, which updates its ACK state
PairPeerRead ==
    \E d \in Arrived("peer") :
        /\ LET a == CalcAckMask(peer.lastSeenSeq, peer.lastAckMask, d.Seq)
           IN  peer' = [peer EXCEPT !.lastSeenSeq = a.lastSeenSeq,
                                    !.lastAckMask = a.lastAckMask,
                                    !.readSeqs = @ \cup {d.Seq}]
        /\ UNCHANGED <<ackVars, connVars, sockVars, histVars, seen, seqVars,
                       pureVars, wire>>

\* the peer: Send(p, true, addr), which stamps the packet with the peer's
\* counter and ACK state
PairPeerSend ==
    /\ peer.nextSeq <= MaxReplies
    /\ LET g == GetNextSeq(peer.nextSeq)
       IN  /\ peer' = [peer EXCEPT !.nextSeq = g.nextSeq]
           /\ wire' = wire \cup {[to |-> "conn", Seq |-> g.seq,
                                  AckSeq |-> peer.lastSeenSeq,
                                  AckMask |-> peer.lastAckMask]}
    /\ UNCHANGED <<ackVars, connVars, sockVars, histVars, seen, seqVars,
                   pureVars>>

NextPair ==
    \/ PairSendReliable
    \/ Carry
    \/ PairTick
    \/ PairPeerRead
    \/ PairPeerSend
    \/ ClockStep

InitPair == Init /\ RemoteAddress

SpecPair == InitPair /\ [][NextPair]_vars

\* ------------------------------------------------------------------------
\* SpecWrap: one reliable packet with the largest RetryCount that is never
\* acknowledged, followed over more than Uint8Mod timer expiries
\* ------------------------------------------------------------------------

\* the number of times the failCount of the record may go round
MaxWraps == 1

\* the largest value of a uint8
MaxUint8 == Uint8Mod - 1

\* the packets of a peer that acknowledges nothing the connection sent
WrapInPackets ==
    [Seq : {1}, AckSeq : {0}, AckMask : {{}}]

WrapSendStep ==
    \E p \in CallerPackets, retryInterval \in 1..MaxInterval :
        /\ created < FewRecords
        /\ DoSendReliable(p, retryInterval, MaxUint8, TRUE, TRUE, TRUE)

WrapTickStep ==
    \E in \in [kind : {"packet"}, p : WrapInPackets]
                \cup {[kind |-> "timeout", p |-> NoPacket]} :
        /\ nextSeq <= (MaxWraps + 1) * Uint8Mod
        /\ Tick(in, 0)

NextWrap ==
    \/ WrapSendStep
    \/ WrapTickStep
    \/ ClockStep

InitWrap == Init /\ RemoteAddress

SpecWrap == InitWrap /\ [][NextWrap]_vars

\* C33: failCount and RetryCount are 8-bit counters. For a record with
\* RetryCount = 255 the increment of failCount goes from 255 to 0, failCount
\* never exceeds RetryCount, and every Tick that reads no packet while the
\* record is due retransmits it and keeps it in flight: OnFailToAck never
\* fires for it.
C33_FailCountWraps ==
    [][\A i \in DOMAIN acksNeeded :
         LET rp == acksNeeded[i]
         IN  (/\ rp.RetryCount = MaxUint8
              /\ last'.op = "Tick"
              /\ last'.p = NoPacket
              /\ rp.nextCheck <= 0)
             => /\ \E j \in DOMAIN acksNeeded' :
                      /\ acksNeeded'[j].id = rp.id
                      /\ acksNeeded'[j].failCount \in 0..MaxUint8
                      /\ acksNeeded'[j].failCount <= acksNeeded'[j].RetryCount
                      /\ rp.failCount = MaxUint8 => acksNeeded'[j].failCount = 0
                      /\ rp.failCount < MaxUint8
                            => acksNeeded'[j].failCount = rp.failCount + 1
                /\ SentOf(last'.out, rp.id) # {}
                /\ onFail'[rp.id] = 0]_vars

\* the record has been sent more than Uint8Mod times and its failCount has
\* started again from 0
C33_Witness ==
    /\ last.op = "Tick"
    /\ acksNeeded # <<>>
    /\ acksNeeded[1].RetryCount = MaxUint8
    /\ acksNeeded[1].failCount = 0
    /\ tx[1] = Uint8Mod + 1
    /\ onFail[1] = 0

\* C31: between two connections that send with generateNewSeq = true and
\* read with UpdateAcksOnRead = true over a network that loses, duplicates
\* and reorders datagrams, OnAck fires for a record only if the peer has read
\* a datagram carrying the sequence number the record has at that moment.
C31_NoFalseAck ==
    [][\A i \in DOMAIN acksNeeded :
         onAck'[acksNeeded[i].id] > onAck[acksNeeded[i].id]
            => /\ acksNeeded[i].Packet.Seq \in peer.readSeqs
               /\ acksNeeded[i].Packet.Seq = lastTxSeq[acksNeeded[i].id]]_vars

\* OnAck fired for a record that was retransmitted, of which the peer read the
\* earlier datagram too, while the other record is still in flight with a
\* sequence number the peer never read
C31_Witness ==
    /\ last.op = "Tick"
    /\ \E id \in Ids :
          /\ onAck[id] = 1
          /\ oldTxSeqs[id] \cap peer.readSeqs # {}
          /\ lastTxSeq[id] \in peer.readSeqs
          /\ \E j \in DOMAIN acksNeeded :
                /\ acksNeeded[j].id # id
                /\ acksNeeded[j].Packet.Seq \notin peer.readSeqs
                /\ acksNeeded[j].Packet.Seq < peer.lastSeenSeq

====
